---- MODULE Spec2Model ----
(***************************************************************************)
(* Payment settlement router of the ChainLinks wallet.                     *)
(*                                                                         *)
(* The model follows the payment router service (src/unnamed/part_003,     *)
(* lines 466-978): getRecipientLightningAddress, resolveLightningAddress,  *)
(* getInvoiceFromLnurl, resolveAndGetInvoice, payViaBreez, payViaCashu,    *)
(* sendCashuViaDm, routePayment and processPayouts.  Every await of the    *)
(* source is one step of the model; the collaborators reached through an   *)
(* await (profile store, direct wallet SDK, HTTP fetch, melt function,     *)
(* mint function, gift-wrap delivery) answer nondeterministically with     *)
(* every outcome their interface allows, a rejected promise included.      *)
(*                                                                         *)
(* Three functions are also run on their own, each in a specification of   *)
(* its own: resolveAndGetInvoice (SpecLnurl), getRecipientLightningAddress *)
(* (SpecAddress) and the NIP-59 gift wrap of                               *)
(* src/services/storageTransfer.ts, lines 198-372 (SpecWrap).  The rest of *)
(* the gift-wrap codec has its specifications too: unwrapGiftWrap on       *)
(* arbitrary events (SpecUnwrap), sendGiftWrap with its relay fan-out      *)
(* (SpecSend) and subscribeToGiftWraps (SpecSub); SpecQuote is the quote   *)
(* subscription of src/services/mnemonicService.ts, lines 430-524.         *)
(* SpecPrice is getBtcPrice with its cache (src/services/priceService.ts,  *)
(* lines 7-62), SpecVerification the index draw of getVerificationIndices  *)
(* (src/services/mnemonicService.ts, lines 411-420; SpecVerificationFair   *)
(* adds a fair random source) and SpecScanner the camera start sequence    *)
(* of src/unnamed/part_004, lines 104-117 and 197-278.                     *)
(*                                                                         *)
(* Strings that the code parses are sequences of tokens: the token "@" is  *)
(* the character '@', every other token is a non-empty run of characters   *)
(* without '@'.  Recipient pubkeys are well-formed hex keys.               *)
(***************************************************************************)
EXTENDS Integers, Sequences, FiniteSets, TLC

\* ---------------------------------------------------------------------------
\* Bounds of the model
\* ---------------------------------------------------------------------------
MaxRecipients == 2
MaxAmount == 1
MaxBalance == 2

Pubkeys == {"pk1", "pk2"}

\* constants of the program
MsatPerSat == 1000
FallbackDomain == "npubx.cash"

\* ---------------------------------------------------------------------------
\* Strings
\* ---------------------------------------------------------------------------
includesAt(s) == \E k \in 1..Len(s) : s[k] = "@"

\* String.prototype.split('@')
RECURSIVE split(_)
split(s) ==
    IF ~includesAt(s) THEN <<s>>
    ELSE LET k == CHOOSE k \in 1..Len(s) :
                     s[k] = "@" /\ \A j \in 1..(k - 1) : s[j] # "@"
         IN <<SubSeq(s, 1, k - 1)>> \o split(SubSeq(s, k + 1, Len(s)))

\* nip19.npubEncode: bech32 text form, human-readable part "npub" + separator
npubEncode(pubkey) == <<"npub1", pubkey>>

\* ---------------------------------------------------------------------------
\* Values exchanged with the collaborators
\* ---------------------------------------------------------------------------
Lud16Values ==
    { <<>>,
      <<"alice">>,
      <<"alice", "@", "example.com">>,
      <<"@", "example.com">>,
      <<"a", "@", "b", "@", "c">> }

\* outcomes of fetchProfile(pubkey): rejection, null, a profile without
\* lud16, a profile with lud16
ProfileOutcomes ==
    { [k |-> "throw", has |-> FALSE, lud16 |-> <<>>],
      [k |-> "null", has |-> FALSE, lud16 |-> <<>>],
      [k |-> "profile", has |-> FALSE, lud16 |-> <<>>] }
    \cup { [k |-> "profile", has |-> TRUE, lud16 |-> l] : l \in Lud16Values }

\* JavaScript numbers of the discovery body: a number or NaN (field missing)
Num(v) == [nan |-> FALSE, v |-> v]
NaN == [nan |-> TRUE, v |-> 0]

\* a < b and a > b on JavaScript numbers (false when either side is NaN)
jsLess(a, b) == ~a.nan /\ ~b.nan /\ a.v < b.v
jsGreater(a, b) == ~a.nan /\ ~b.nan /\ a.v > b.v

\* ceilSats rounding down
ceilSatsTruncated(x) == IF x.nan THEN NaN ELSE Num(x.v \div MsatPerSat)

\* Math.ceil(x / 1000), Math.floor(x / 1000) for x >= 0 or NaN
ceilSats(x) == IF x.nan THEN NaN ELSE Num((x.v + MsatPerSat - 1) \div MsatPerSat)
floorSats(x) == IF x.nan THEN NaN ELSE Num(x.v \div MsatPerSat)

\* the body of the LNURL-pay discovery response (data.callback,
\* data.minSendable, data.maxSendable; a missing number reads as NaN)
MinMsatValues == {NaN, Num(0), Num(1500)}
MaxMsatValues == {NaN, Num(1999), Num(MaxAmount * MsatPerSat)}
DiscoveryBodies ==
    [callback : {"https://cb"}, minSendable : MinMsatValues, maxSendable : MaxMsatValues]
    \cup { [callback |-> "undefined", minSendable |-> Num(0),
            maxSendable |-> Num(MaxAmount * MsatPerSat)] }

NoEndpoint == [callback |-> "none", minSendable |-> NaN, maxSendable |-> NaN]

\* the pr field of the callback response
Bolt11 == "lnbc1"
NoInvoice == "null"

\* PaymentResult (txId and feeSats are carried through unchanged and left out)
Result(success, method, error) ==
    [success |-> success, method |-> method, error |-> error]
NoResult == Result(FALSE, "none", "none")

\* one await on a collaborator: what was called, with what, and its outcome
Call(op, to, amt, res) == [op |-> op, to |-> to, amt |-> amt, res |-> res]

\* ---------------------------------------------------------------------------
\* State
\* ---------------------------------------------------------------------------
VARIABLES
    recipients,     \* processPayouts: the input list of PayoutRecipient
    hasMintFn,      \* whether createCashuTokenFn was supplied
    i,              \* processPayouts: loop index (1-based)
    results,        \* processPayouts: Map pubkey -> PaymentResult
    successCount, failCount, totalPaid,
    pc,             \* position of the running call
    breezInit,      \* what isBreezInitialized() answered in this routePayment
    balance,        \* payViaBreez: balance.balanceSats (-1 outside payViaBreez)
    address, source,\* routePayment: result of getRecipientLightningAddress
    resolved,       \* resolveAndGetInvoice: the resolved endpoint
    invoice,        \* routePayment: result of resolveAndGetInvoice
    token,          \* routePayment: the minted token
    ret,            \* value returned by the routePayment call
    rails,          \* rails entered by the current routePayment call, in order
    calls,          \* collaborator calls of the current routePayment call, in order
    lnurlCall,      \* frame of a resolveAndGetInvoice call made on its own
    addressCall,    \* frame of a getRecipientLightningAddress call made on its own
    now,            \* gift wrap: Math.floor(Date.now() / 1000)
    keysGenerated,  \* gift wrap: number of keys generateSecretKey has produced
    message,        \* gift wrap: the content, sender key and recipient key wrapped
    wraps,          \* gift wrap: the gift wraps built from the message, in order
    unwrapRet,      \* gift wrap: outcome of the last unwrapGiftWrap call
    sendCall,       \* frame of a sendGiftWrap call: relays, publish attempts, outcome
    giftSub,        \* gift-wrap subscriptions: those open, events received, onMessage calls
    quoteSub,       \* npub.cash quote subscription: module handle and client subscriptions
    priceService,   \* price service: clock, cachedPrice and the getBtcPrice calls
    verification,   \* frame of a getVerificationIndices call
    scanner         \* web QR scanner: start sequences, timers, stream and error

routerVars == <<recipients, hasMintFn, i, results, successCount, failCount, totalPaid,
                pc, breezInit, balance, address, source, resolved, invoice, token, ret,
                rails, calls>>

\* the frames of the functions exercised on their own; idle while
\* processPayouts runs
wrapVars == <<now, keysGenerated, message, wraps, unwrapRet>>

messagingVars == <<sendCall, giftSub, quoteSub>>

appVars == <<priceService, verification, scanner>>

harnessVars == <<lnurlCall, addressCall, wrapVars, messagingVars, appVars>>

vars == <<routerVars, harnessVars>>

Idle == [pc |-> "idle"]

\* no gift wrap in progress
wrapIdle ==
    /\ now = 0
    /\ keysGenerated = 0
    /\ message = Idle
    /\ wraps = <<>>
    /\ unwrapRet = Idle

\* no send, no subscription
messagingIdle ==
    /\ sendCall = Idle
    /\ giftSub = Idle
    /\ quoteSub = Idle

\* price service, backup verification and scanner not in use
appIdle ==
    /\ priceService = Idle
    /\ verification = Idle
    /\ scanner = Idle

HarnessIdle ==
    /\ lnurlCall = Idle
    /\ addressCall = Idle
    /\ wrapIdle
    /\ messagingIdle
    /\ appIdle

batchVars == <<recipients, hasMintFn, i, results, successCount, failCount, totalPaid>>

Recipients == [pubkey : Pubkeys, amountSats : 1..MaxAmount]

RecipientLists ==
    UNION { [1..n -> Recipients] : n \in 0..MaxRecipients }

recipient == recipients[i]

Init ==
    /\ recipients \in RecipientLists
    /\ hasMintFn \in BOOLEAN
    /\ i = 1
    /\ results = [k \in {} |-> NoResult]
    /\ successCount = 0
    /\ failCount = 0
    /\ totalPaid = 0
    /\ pc = "loop"
    /\ breezInit = FALSE
    /\ balance = -1
    /\ address = <<>>
    /\ source = "none"
    /\ resolved = NoEndpoint
    /\ invoice = NoInvoice
    /\ token = <<>>
    /\ ret = NoResult
    /\ rails = <<>>
    /\ calls = <<>>
    /\ HarnessIdle

\* ---------------------------------------------------------------------------
\* getRecipientLightningAddress
\* ---------------------------------------------------------------------------
\* profile?.lud16 && profile.lud16.includes('@')
hasLud16(profile) ==
    /\ profile.k = "profile"
    /\ profile.has
    /\ profile.lud16 # <<>>
    /\ includesAt(profile.lud16)

\* fallbackAddress not depending on the pubkey
fallbackAddressFixed(pubkey) == <<"npub1", "@", FallbackDomain>>

fallbackAddress(pubkey) == npubEncode(pubkey) \o <<"@", FallbackDomain>>

\* the record returned for an outcome of fetchProfile; a rejected lookup is
\* caught and answered with the fallback
getRecipientLightningAddress(pubkey, profile) ==
    IF hasLud16(profile)
    THEN [address |-> profile.lud16, source |-> "kind0"]
    ELSE [address |-> fallbackAddress(pubkey), source |-> "npubcash"]

\* ---------------------------------------------------------------------------
\* routePayment, step by step
\* ---------------------------------------------------------------------------
AllFailed == Result(FALSE, "failed", "All payment methods failed")

\* afterBreez without the return of line 810
afterBreezNoReturn(success) == "lnurlDiscover"

\* line 808: a successful direct-wallet result is returned, any other falls
\* through to step 3
afterBreez(success) == IF success THEN "routeDone" ELSE "lnurlDiscover"

\* insufficientBalance with the comparison turned around
insufficientBalanceReversed(balanceSats, amountSats) == balanceSats > amountSats

\* line 697: balance.balanceSats < amountSats is the insufficient case
insufficientBalance(balanceSats, amountSats) == balanceSats < amountSats

\* methodForSource with the two methods exchanged
methodForSourceSwapped(src) == IF src = "kind0" THEN "npubcash" ELSE "lnurl"

\* line 829
methodForSource(src) == IF src = "kind0" THEN "lnurl" ELSE "npubcash"

\* payViaCashu reporting success whatever cashuPaymentFn answered
payViaCashuAlwaysTrue(res) == Result(TRUE, "lnurl", "none")

\* payViaCashu reporting failure whatever cashuPaymentFn answered
payViaCashuAlwaysFalse(res) == Result(FALSE, "lnurl", "Cashu payment failed")

\* payViaCashu: the PaymentResult for an outcome of cashuPaymentFn(invoice);
\* a rejection is caught and reported like a false
payViaCashu(res) ==
    Result(res = "ok", "lnurl", IF res = "ok" THEN "none" ELSE "Cashu payment failed")

\* afterMint without the catch of line 846 ending the fallback
afterMintNoCatch(res) == "sendDm"

\* lines 839-848: a minted token goes on to sendCashuViaDm, a rejection of
\* createCashuTokenFn is caught and falls through to the final result
afterMint(res) == IF res = "ok" THEN "sendDm" ELSE "routeDone"

\* sendCashuViaDm: the PaymentResult for an outcome of sendGiftWrap
sendCashuViaDm(res) ==
    Result(res = "ok", "cashu_dm",
           IF res = "ok" THEN "none" ELSE "Failed to send encrypted message")

\* dmAvailable without the test of line 836
dmAvailableUnchecked(fn) == TRUE

\* line 836: if (createCashuTokenFn)
dmAvailable(fn) == fn

\* mintAmount in millisats instead of sats
mintAmountMsat(r) == r.amountSats * MsatPerSat

\* line 839: createCashuTokenFn(recipient.amountSats)
mintAmount(r) == r.amountSats

\* line 840: sendCashuViaDm(recipient.pubkey, ...)
dmTarget(r) == r.pubkey

\* entering step 3 (line 815) from step 2
EnterLnurl(log) ==
    /\ pc' = "lnurlDiscover"
    /\ rails' = Append(rails, "lnurl")
    /\ calls' = log
    /\ UNCHANGED <<ret, invoice, resolved, token>>

\* entering step 4 (line 835) with the invoice that step 3 produced; without a
\* mint function the call falls through to the final result
EnterDm(inv, log) ==
    /\ invoice' = inv
    /\ rails' = Append(rails, "dm")
    /\ calls' = log
    /\ token' = token
    /\ resolved' = NoEndpoint
    /\ IF dmAvailable(hasMintFn)
       THEN pc' = "mint" /\ ret' = ret
       ELSE pc' = "routeDone" /\ ret' = AllFailed

\* line 796: getRecipientLightningAddress, then line 800: isBreezInitialized()
FetchProfile ==
    /\ UNCHANGED harnessVars
    /\ pc = "getAddress"
    /\ \E profile \in ProfileOutcomes, init \in BOOLEAN :
         LET a == getRecipientLightningAddress(recipient.pubkey, profile)
             log == Append(calls, Call("fetchProfile", recipient.pubkey, 0, "done"))
         IN /\ address' = a.address
            /\ source' = a.source
            /\ breezInit' = init
            /\ balance' = -1
            /\ IF init
               THEN /\ pc' = "breezBalance"
                    /\ rails' = Append(rails, "breez")
                    /\ calls' = log
                    /\ UNCHANGED <<ret, invoice, resolved, token>>
               ELSE EnterLnurl(log)
    /\ UNCHANGED batchVars

\* payViaBreez, line 696: the balance query answers
BreezBalance ==
    /\ UNCHANGED harnessVars
    /\ pc = "breezBalance"
    /\ breezInit
    /\ \/ \E balanceSats \in 0..MaxBalance :
            /\ pc' = "breezCheck"
            /\ balance' = balanceSats
            /\ calls' = Append(calls, Call("getBreezBalance", "", 0, "ok"))
       \/ /\ pc' = "thrown"
          /\ balance' = -1
          /\ calls' = Append(calls, Call("getBreezBalance", "", 0, "throw"))
    /\ UNCHANGED <<batchVars, breezInit, address, source, rails, ret, invoice,
                   resolved, token>>

\* payViaBreez, lines 697-713: the balance check and the send, then
\* routePayment, lines 808-812
BreezPay ==
    /\ UNCHANGED harnessVars
    /\ pc = "breezCheck"
    /\ IF insufficientBalance(balance, recipient.amountSats)
       THEN EnterLnurl(calls)
       ELSE \/ \E success \in BOOLEAN :
                 LET log == Append(calls, Call("breezPay", "", recipient.amountSats,
                                               IF success THEN "ok" ELSE "fail"))
                 IN IF afterBreez(success) = "routeDone"
                    THEN /\ pc' = "routeDone"
                         /\ ret' = Result(success, "breez", "none")
                         /\ calls' = log
                         /\ UNCHANGED <<rails, invoice, resolved, token>>
                    ELSE EnterLnurl(log)
            \/ /\ pc' = "thrown"
               /\ calls' = Append(calls, Call("breezPay", "", recipient.amountSats, "throw"))
               /\ UNCHANGED <<rails, ret, invoice, resolved, token>>
    /\ balance' = -1
    /\ UNCHANGED <<batchVars, breezInit, address, source>>

\* ---------------------------------------------------------------------------
\* resolveLightningAddress, getInvoiceFromLnurl, resolveAndGetInvoice
\* ---------------------------------------------------------------------------
\* const [name, domain] = lightningAddress.split('@'); !name || !domain
addressName(a) == split(a)[1]
addressDomain(a) == IF Len(split(a)) >= 2 THEN split(a)[2] ELSE <<>>
validAddress(a) == addressName(a) # <<>> /\ addressDomain(a) # <<>>

\* lines 524-529: the endpoint built from the discovery body
endpointOf(body) ==
    [callback |-> body.callback,
     minSendable |-> ceilSats(body.minSendable),
     maxSendable |-> floorSats(body.maxSendable)]

\* belowMin without the test of line 615
belowMinNever(amountSats, ep) == FALSE

\* lines 615-622: the bounds check of resolveAndGetInvoice
belowMin(amountSats, ep) == jsLess(Num(amountSats), ep.minSendable)
aboveMax(amountSats, ep) == jsGreater(Num(amountSats), ep.maxSendable)
inBounds(amountSats, ep) == ~belowMin(amountSats, ep) /\ ~aboveMax(amountSats, ep)

\* line 549: new URL(callback) throws on a value that is no URL
validUrl(callback) == callback # "undefined"

\* line 823: if (invoice)
truthy(inv) == inv \notin {"null", "undefined", ""}

\* resolveLightningAddress and the bounds check of resolveAndGetInvoice
LnurlDiscover ==
    /\ UNCHANGED harnessVars
    /\ pc = "lnurlDiscover"
    /\ IF ~validAddress(address)
       THEN EnterDm(NoInvoice, calls)
       ELSE \/ \E res \in {"throw", "notOk", "badJson"} :
                 EnterDm(NoInvoice, Append(calls, Call("lnurlp", "", 0, "fail")))
            \/ \E body \in DiscoveryBodies :
                 LET ep == endpointOf(body)
                     log == Append(calls, Call("lnurlp", "", 0, "ok"))
                 IN IF inBounds(recipient.amountSats, ep)
                    THEN /\ pc' = "lnurlCallback"
                         /\ resolved' = ep
                         /\ calls' = log
                         /\ UNCHANGED <<rails, ret, invoice, token>>
                    ELSE EnterDm(NoInvoice, log)
    /\ UNCHANGED <<batchVars, breezInit, balance, address, source>>

\* what getInvoiceFromLnurl returns for an outcome of the callback request
invoiceOf(res) ==
    CASE res = "ok" -> Bolt11
      [] res = "noPr" -> "undefined"
      [] OTHER -> NoInvoice

\* getInvoiceFromLnurl and routePayment line 823
LnurlCallback ==
    /\ UNCHANGED harnessVars
    /\ pc = "lnurlCallback"
    /\ IF ~validUrl(resolved.callback)
       THEN EnterDm(NoInvoice, calls)
       ELSE \E res \in {"throw", "notOk", "badJson", "statusError", "noPr", "ok"} :
              LET inv == invoiceOf(res)
                  log == Append(calls, Call("lnurlCallback", "",
                                            recipient.amountSats * MsatPerSat,
                                            IF res = "ok" THEN "ok" ELSE "fail"))
              IN IF truthy(inv)
                 THEN /\ pc' = "melt"
                      /\ invoice' = inv
                      /\ calls' = log
                      /\ resolved' = NoEndpoint
                      /\ UNCHANGED <<rails, ret, token>>
                 ELSE EnterDm(inv, log)
    /\ UNCHANGED <<batchVars, breezInit, balance, address, source>>

\* payViaCashu and routePayment lines 825-832
Melt ==
    /\ UNCHANGED harnessVars
    /\ pc = "melt"
    /\ \E res \in {"ok", "fail", "throw"} :
         LET log == Append(calls, Call("melt", "", 0, res))
             cashuResult == payViaCashu(res)
         IN IF cashuResult.success
            THEN /\ pc' = "routeDone"
                 /\ ret' = [cashuResult EXCEPT !.method = methodForSource(source)]
                 /\ calls' = log
                 /\ UNCHANGED <<rails, invoice, resolved, token>>
            ELSE EnterDm(invoice, log)
    /\ UNCHANGED <<batchVars, breezInit, balance, address, source>>

\* line 839: createCashuTokenFn, its rejection caught at line 846
Mint ==
    /\ UNCHANGED harnessVars
    /\ pc = "mint"
    /\ \E res \in {"ok", "throw"} :
         /\ token' = IF res = "ok" THEN <<"cashuA", mintAmount(recipient)>> ELSE token
         /\ calls' = Append(calls, Call("mint", "", mintAmount(recipient), res))
         /\ pc' = afterMint(res)
         /\ ret' = IF afterMint(res) = "routeDone" THEN AllFailed ELSE ret
    /\ UNCHANGED <<batchVars, breezInit, balance, address, source, resolved, invoice, rails>>

\* sendCashuViaDm and routePayment lines 842-857
SendDm ==
    /\ UNCHANGED harnessVars
    /\ pc = "sendDm"
    /\ \E res \in {"ok", "throw"} :
         /\ calls' = Append(calls, Call("sendGiftWrap", dmTarget(recipient),
                                        recipient.amountSats, res))
         /\ ret' = IF sendCashuViaDm(res).success THEN sendCashuViaDm(res) ELSE AllFailed
    /\ pc' = "routeDone"
    /\ UNCHANGED <<batchVars, breezInit, balance, address, source, resolved, invoice, token, rails>>

\* ---------------------------------------------------------------------------
\* processPayouts
\* ---------------------------------------------------------------------------
\* results.set(recipient.pubkey, result)
mapSet(m, key, val) ==
    [k \in DOMAIN m \cup {key} |-> IF k = key THEN val ELSE m[k]]

\* the locals of a routePayment call do not outlive it
LocalsGone ==
    /\ breezInit' = FALSE
    /\ balance' = -1
    /\ address' = <<>>
    /\ source' = "none"
    /\ resolved' = NoEndpoint
    /\ invoice' = NoInvoice
    /\ token' = <<>>
    /\ ret' = NoResult
    /\ rails' = <<>>
    /\ calls' = <<>>

\* nextIndex passing over a recipient
nextIndexSkip(k) == k + 2

\* line 884: i++
nextIndex(k) == k + 1

\* delayBetween pausing after the last recipient as well
delayAlways(k, n) == TRUE

\* line 909: if (i < recipients.length - 1), with the 1-based index k of n
delayBetween(k, n) == k < n

\* line 884 with i < recipients.length: line 893 calls routePayment
StartRoute ==
    /\ UNCHANGED harnessVars
    /\ pc = "loop"
    /\ i <= Len(recipients)
    /\ pc' = "getAddress"
    /\ UNCHANGED <<batchVars, breezInit, balance, address, source, resolved, invoice,
                   token, ret, rails, calls>>

\* lines 899-911: the result is recorded and counted
RecordResult ==
    /\ UNCHANGED harnessVars
    /\ pc = "routeDone"
    /\ results' = mapSet(results, recipient.pubkey, ret)
    /\ IF ret.success
       THEN /\ successCount' = successCount + 1
            /\ totalPaid' = totalPaid + recipient.amountSats
            /\ failCount' = failCount
       ELSE /\ failCount' = failCount + 1
            /\ UNCHANGED <<successCount, totalPaid>>
    /\ IF delayBetween(i, Len(recipients))
       THEN pc' = "delay" /\ i' = i
       ELSE pc' = "loop" /\ i' = nextIndex(i)
    /\ LocalsGone
    /\ UNCHANGED <<recipients, hasMintFn>>

\* line 910: the 500 ms pause between two recipients
Delay ==
    /\ UNCHANGED harnessVars
    /\ pc = "delay"
    /\ pc' = "loop"
    /\ i' = nextIndex(i)
    /\ UNCHANGED <<recipients, hasMintFn, results, successCount, failCount, totalPaid,
                   breezInit, balance, address, source, resolved, invoice, token, ret,
                   rails, calls>>

\* line 884 with i = recipients.length: lines 914-921
Return ==
    /\ UNCHANGED harnessVars
    /\ pc = "loop"
    /\ i > Len(recipients)
    /\ pc' = "returned"
    /\ UNCHANGED <<batchVars, breezInit, balance, address, source, resolved, invoice,
                   token, ret, rails, calls>>

Next ==
    \/ StartRoute
    \/ FetchProfile
    \/ BreezBalance
    \/ BreezPay
    \/ LnurlDiscover
    \/ LnurlCallback
    \/ Melt
    \/ Mint
    \/ SendDm
    \/ RecordResult
    \/ Delay
    \/ Return

Spec == Init /\ [][Next]_vars

\* ---------------------------------------------------------------------------
\* resolveAndGetInvoice called on its own
\* ---------------------------------------------------------------------------
MaxLnurlAmount == 2

routerParked ==
    /\ recipients = <<>>
    /\ hasMintFn = FALSE
    /\ i = 1
    /\ results = [k \in {} |-> NoResult]
    /\ successCount = 0
    /\ failCount = 0
    /\ totalPaid = 0
    /\ pc = "idle"
    /\ breezInit = FALSE
    /\ balance = -1
    /\ address = <<>>
    /\ source = "none"
    /\ resolved = NoEndpoint
    /\ invoice = NoInvoice
    /\ token = <<>>
    /\ ret = NoResult
    /\ rails = <<>>
    /\ calls = <<>>

\* the lightningAddress argument
LightningAddresses == Lud16Values \cup { <<"alice", "@">> }

\* data.minSendable, data.maxSendable in millisats; NaN when the field is missing
MsatValues ==
    {NaN} \cup { Num(s * MsatPerSat + d) : s \in 0..MaxLnurlAmount, d \in {0, 1, 999} }

\* response.json() of the discovery request; a missing callback or metadata
\* reads as undefined
LnurlpBodies ==
    [callback : {"https://cb", "undefined"}, minSendable : MsatValues,
     maxSendable : MsatValues, metadata : {"[[text/plain]]", "undefined"}]

EmptyBody ==
    [callback |-> "undefined", minSendable |-> NaN, maxSendable |-> NaN,
     metadata |-> "undefined"]

\* outcomes of the discovery request: fetch rejecting, a status outside 2xx,
\* a body that is no JSON, a JSON body
LnurlpResponses ==
    { [k |-> r, body |-> EmptyBody] : r \in {"throw", "notOk", "badJson"} }
    \cup { [k |-> "ok", body |-> b] : b \in LnurlpBodies }

NoResponse == [k |-> "none", body |-> EmptyBody]

\* outcomes of the callback request
CallbackOutcomes == {"throw", "notOk", "badJson", "statusError", "noPr", "ok"}

\* resolveAndGetInvoice(lightningAddress, amountSats) on entry
lnurlFrame(a, n) ==
    [pc |-> "resolve", lightningAddress |-> a, amountSats |-> n, data |-> NoResponse,
     resolved |-> NoEndpoint, requests |-> <<>>, callbackRes |-> "none",
     ret |-> NoInvoice]

\* everything but the frame of resolveAndGetInvoice
exceptLnurl == <<routerVars, appVars, addressCall, wrapVars, messagingVars>>

InitLnurl ==
    /\ routerParked
    /\ appIdle
    /\ addressCall = Idle
    /\ wrapIdle
    /\ messagingIdle
    /\ lnurlCall \in { lnurlFrame(a, n) : a \in LightningAddresses, n \in 1..MaxLnurlAmount }

\* line 608: resolveLightningAddress, lines 610-622: the null and bounds checks
ResolveAddress ==
    /\ lnurlCall.pc = "resolve"
    /\ IF ~validAddress(lnurlCall.lightningAddress)
       THEN lnurlCall' = [lnurlCall EXCEPT !.pc = "returned"]
       ELSE \E resp \in LnurlpResponses :
              LET ep == IF resp.k = "ok" THEN endpointOf(resp.body) ELSE NoEndpoint
                  go == resp.k = "ok" /\ inBounds(lnurlCall.amountSats, ep)
              IN lnurlCall' =
                   [lnurlCall EXCEPT !.pc = IF go THEN "getInvoice" ELSE "returned",
                                     !.data = resp,
                                     !.resolved = ep,
                                     !.requests = Append(@, <<"lnurlp", 0>>)]
    /\ UNCHANGED exceptLnurl

\* line 625: getInvoiceFromLnurl(resolved.callback, amountSats, comment)
GetInvoice ==
    /\ lnurlCall.pc = "getInvoice"
    /\ IF ~validUrl(lnurlCall.resolved.callback)
       THEN lnurlCall' = [lnurlCall EXCEPT !.pc = "returned"]
       ELSE \E res \in CallbackOutcomes :
              lnurlCall' =
                [lnurlCall EXCEPT !.pc = "returned",
                                  !.callbackRes = res,
                                  !.requests = Append(@, <<"callback",
                                                   lnurlCall.amountSats * MsatPerSat>>),
                                  !.ret = invoiceOf(res)]
    /\ UNCHANGED exceptLnurl

NextLnurl ==
    \/ ResolveAddress
    \/ GetInvoice

SpecLnurl == InitLnurl /\ [][NextLnurl]_vars

\* ---------------------------------------------------------------------------
\* getRecipientLightningAddress called on its own
\* ---------------------------------------------------------------------------
MaxLud16Len == 4

\* profile.lud16 as a string of at most MaxLud16Len tokens
Lud16Strings ==
    UNION { [1..n -> {"alice", "@", "example.com"}] : n \in 0..MaxLud16Len }

\* outcomes of fetchProfile(pubkey): rejection, null, a profile without
\* lud16, a profile whose lud16 is no string, a profile with a lud16 string
LookupOutcomes ==
    { [k |-> r, has |-> FALSE, lud16 |-> <<>>] : r \in {"throw", "null", "profile"} }
    \cup { [k |-> "nonString", has |-> TRUE, lud16 |-> <<>>] }
    \cup { [k |-> "profile", has |-> TRUE, lud16 |-> l] : l \in Lud16Strings }

NoAddress == [address |-> <<>>, source |-> "none"]

\* getRecipientLightningAddress(pubkey) on entry
addressFrame(pubkey) ==
    [pc |-> "fetchProfile", pubkey |-> pubkey,
     profile |-> [k |-> "none", has |-> FALSE, lud16 |-> <<>>], ret |-> NoAddress]

\* everything but the frame of getRecipientLightningAddress
exceptAddress == <<routerVars, appVars, lnurlCall, wrapVars, messagingVars>>

InitAddress ==
    /\ routerParked
    /\ appIdle
    /\ lnurlCall = Idle
    /\ wrapIdle
    /\ messagingIdle
    /\ addressCall \in { addressFrame(pubkey) : pubkey \in Pubkeys }

\* lines 642-672: the lookup answers and the function returns
LookupProfile ==
    /\ addressCall.pc = "fetchProfile"
    /\ \E profile \in LookupOutcomes :
         addressCall' =
            [addressCall EXCEPT !.pc = "returned",
                                !.profile = profile,
                                !.ret = getRecipientLightningAddress(addressCall.pubkey,
                                                                     profile)]
    /\ UNCHANGED exceptAddress

NextAddress ==
    \/ LookupProfile

SpecAddress == InitAddress /\ [][NextAddress]_vars

\* ---------------------------------------------------------------------------
\* NIP-59 gift wrap (src/services/storageTransfer.ts)
\* ---------------------------------------------------------------------------
MaxWraps == 2
MaxTicks == 1

\* 24 * 60 * 60
SecondsPerDay == 86400

\* the least and the greatest value of Math.floor(Math.random() * (24 * 60 * 60))
Offsets == {0, SecondsPerDay - 1}

\* randomNow adding the offset
randomNowAhead(t, offset) == t + offset

\* randomNow with the offset the random source gave
randomNow(t, offset) == t - offset

\* secret keys of the two users; a key pair is named by its owner and a
\* serial number, the public key is the pair <<owner, serial>>
UserSecretKeys == { [who |-> "A", n |-> 0], [who |-> "B", n |-> 0] }
getPublicKey(sk) == <<sk.who, sk.n>>
UserPubkeys == { getPublicKey(sk) : sk \in UserSecretKeys }

\* generateSecretKey handing out the secret key of a user
generateSecretKeyOfUser(n) == [who |-> "A", n |-> 0]

\* generateSecretKey handing out the same key again
generateSecretKeyRepeating(n) == [who |-> "eph", n |-> 1]

\* generateSecretKey: 32 bytes of the system random source, a key that was
\* never produced before; n keys have been produced so far
generateSecretKey(n) == [who |-> "eph", n |-> n + 1]

\* nip44.v2.utils.getConversationKey: the shared secret of a secret key and a
\* public key, the same for (skA, pkB) and (skB, pkA)
getConversationKey(sk, pk) == {getPublicKey(sk), pk}

\* nip44.v2.encrypt, nip44.v2.decrypt: decryption under another key fails
\* the authentication of the payload
encrypt(plaintext, key) == [key |-> key, plaintext |-> plaintext]
canDecrypt(ciphertext, key) == ciphertext.key = key
decrypt(ciphertext, key) == ciphertext.plaintext

\* message contents: strings over an ordinary character "x", the double quote
\* "q" and the backslash "b"
Contents == { <<>>, <<"x">>, <<"q">>, <<"b", "q">>, <<"b", "x">>, <<"x", "b">> }

\* JSON.stringify of a string: quote and backslash are escaped
RECURSIVE escape(_)
escape(str) ==
    IF str = <<>> THEN <<>>
    ELSE (IF Head(str) \in {"q", "b"} THEN <<"b", Head(str)>> ELSE <<Head(str)>>)
         \o escape(Tail(str))

\* JSON.parse of a string literal: a backslash makes the next character literal
RECURSIVE unescape(_)
unescape(str) ==
    IF str = <<>> THEN <<>>
    ELSE IF Head(str) = "b" /\ Len(str) >= 2
         THEN <<str[2]>> \o unescape(Tail(Tail(str)))
         ELSE <<Head(str)>> \o unescape(Tail(str))

\* a text that is not JSON: JSON.parse throws a SyntaxError on it
NotJson == [json |-> "invalid"]
canParse(text) == text.json # "invalid"

\* JSON.stringify(rumor), JSON.parse of it
stringifyRumor(rumor) ==
    [json |-> "rumor", kind |-> rumor.kind, created_at |-> rumor.created_at,
     content |-> escape(rumor.content), tags |-> rumor.tags, pubkey |-> rumor.pubkey]
parseRumor(text) ==
    [kind |-> text.kind, created_at |-> text.created_at,
     content |-> unescape(text.content), tags |-> text.tags, pubkey |-> text.pubkey]

\* JSON.stringify(seal), JSON.parse of it; the content of a seal is base64
\* text that needs no escaping
stringifySeal(seal) ==
    [json |-> "seal", kind |-> seal.kind, created_at |-> seal.created_at,
     content |-> seal.content, tags |-> seal.tags, pubkey |-> seal.pubkey,
     sig |-> seal.sig]
parseSeal(text) ==
    [kind |-> text.kind, created_at |-> text.created_at, content |-> text.content,
     tags |-> text.tags, pubkey |-> text.pubkey, sig |-> text.sig]

\* finalizeEvent(template, secretKey): the event signed by secretKey
finalizeEvent(template, sk) ==
    [kind |-> template.kind, created_at |-> template.created_at,
     content |-> template.content, tags |-> template.tags,
     pubkey |-> getPublicKey(sk), sig |-> getPublicKey(sk)]

createRumor(content, senderPubkey, t) ==
    [kind |-> 14, created_at |-> t, content |-> content, tags |-> <<>>,
     pubkey |-> senderPubkey]

createSeal(rumor, senderSecretKey, recipientPubkey, t) ==
    finalizeEvent(
        [kind |-> 13, created_at |-> t,
         content |-> encrypt(stringifyRumor(rumor),
                             getConversationKey(senderSecretKey, recipientPubkey)),
         tags |-> <<>>],
        senderSecretKey)

createGiftWrap(seal, recipientPubkey, ephemeralSk, t) ==
    finalizeEvent(
        [kind |-> 1059, created_at |-> t,
         content |-> encrypt(stringifySeal(seal),
                             getConversationKey(ephemeralSk, recipientPubkey)),
         tags |-> << <<"p", recipientPubkey>> >>],
        ephemeralSk)

NoRumor == createRumor(<<>>, <<"none", 0>>, 0)
DecryptError == [k |-> "error", rumor |-> NoRumor, error |-> "Failed to decrypt message"]

\* the catch block passing on the error it caught
caughtAsIs(cause) == [k |-> "error", rumor |-> NoRumor, error |-> cause]

\* lines 368-371: whatever was thrown, 'Failed to decrypt message' is raised
caught(cause) ==
    [k |-> "error", rumor |-> NoRumor, error |-> "Failed to decrypt message"]

\* the public key unwrapGiftWrap derives the seal layer's key from, taken
\* from the outer event
sealKeyFromWrap(giftWrapEvent, seal) == giftWrapEvent.pubkey

\* line 363: the seal layer is decrypted with the key of seal.pubkey
sealKeyFrom(giftWrapEvent, seal) == seal.pubkey

\* unwrapGiftWrap(giftWrapEvent, recipientSecretKey): the rumor, or the error
\* that replaces every failure
unwrapGiftWrap(giftWrapEvent, recipientSecretKey) ==
    LET outerKey == getConversationKey(recipientSecretKey, giftWrapEvent.pubkey)
    IN IF ~canDecrypt(giftWrapEvent.content, outerKey) THEN caught("invalid MAC")
       ELSE IF ~canParse(decrypt(giftWrapEvent.content, outerKey))
       THEN caught("SyntaxError")
       ELSE LET seal == parseSeal(decrypt(giftWrapEvent.content, outerKey))
                innerKey == getConversationKey(recipientSecretKey,
                                               sealKeyFrom(giftWrapEvent, seal))
            IN IF ~canDecrypt(seal.content, innerKey) THEN caught("invalid MAC")
               ELSE IF ~canParse(decrypt(seal.content, innerKey))
               THEN caught("SyntaxError")
               ELSE [k |-> "rumor",
                     rumor |-> parseRumor(decrypt(seal.content, innerKey)),
                     error |-> "none"]

\* everything but the gift wrap state
exceptWrap == <<routerVars, appVars, lnurlCall, addressCall, messagingVars>>

\* the clock starts a day after the epoch
InitWrap ==
    /\ routerParked
    /\ appIdle
    /\ lnurlCall = Idle
    /\ addressCall = Idle
    /\ messagingIdle
    /\ now = SecondsPerDay
    /\ keysGenerated = 0
    /\ message \in [content : Contents, senderSecretKey : UserSecretKeys,
                    recipientPubkey : UserPubkeys]
    /\ wraps = <<>>
    /\ unwrapRet = Idle

\* a second passes
Tick ==
    /\ now < SecondsPerDay + MaxTicks
    /\ now' = now + 1
    /\ UNCHANGED <<exceptWrap, keysGenerated, message, wraps, unwrapRet>>

\* sendGiftWrap lines 301-309: rumor, seal and gift wrap are built
Wrap ==
    /\ Len(wraps) < MaxWraps
    /\ \E sealOffset \in Offsets, wrapOffset \in Offsets :
         LET rumor == createRumor(message.content,
                                  getPublicKey(message.senderSecretKey), now)
             seal == createSeal(rumor, message.senderSecretKey,
                                message.recipientPubkey, randomNow(now, sealOffset))
             ephemeralSk == generateSecretKey(keysGenerated)
         IN wraps' = Append(wraps, createGiftWrap(seal, message.recipientPubkey,
                                                  ephemeralSk,
                                                  randomNow(now, wrapOffset)))
    /\ keysGenerated' = keysGenerated + 1
    /\ UNCHANGED <<exceptWrap, now, message, unwrapRet>>

\* unwrapGiftWrap called by a user on one of the gift wraps
Unwrap ==
    /\ \E j \in 1..Len(wraps), sk \in UserSecretKeys :
         unwrapRet' = [pc |-> "returned", of |-> j, with |-> sk,
                       res |-> unwrapGiftWrap(wraps[j], sk)]
    /\ UNCHANGED <<exceptWrap, now, keysGenerated, message, wraps>>

NextWrap ==
    \/ Tick
    \/ Wrap
    \/ Unwrap

SpecWrap == InitWrap /\ [][NextWrap]_vars

\* ---------------------------------------------------------------------------
\* unwrapGiftWrap on arbitrary kind-1059 events (lines 348-372)
\* ---------------------------------------------------------------------------
\* a party that is neither the sender nor the recipient
Mallory == [who |-> "M", n |-> 0]

\* a JSON object without a pubkey member: rumor.pubkey is undefined
Undefined == <<"undefined">>

\* a seal made by Mallory: text encrypted under textKey, pubkey as claimed
forgedSeal(text, textKey, pubkey) ==
    stringifySeal([kind |-> 13, created_at |-> 0,
                   content |-> encrypt(text, textKey), tags |-> <<>>,
                   pubkey |-> pubkey, sig |-> getPublicKey(Mallory)])

\* a kind-1059 event made by Mallory and addressed to recipientPubkey
forgedEvent(text, textKey, recipientPubkey) ==
    finalizeEvent([kind |-> 1059, created_at |-> 0,
                   content |-> encrypt(text, textKey),
                   tags |-> << <<"p", recipientPubkey>> >>], Mallory)

\* events that are garbage at one of the layers: an outer ciphertext under
\* no key of the recipient, a seal that is not JSON, a seal content under no
\* key of the recipient, a rumor that is not JSON
UnreadableEvents(recipientPubkey) ==
    LET key == getConversationKey(Mallory, recipientPubkey)
    IN { forgedEvent(NotJson, {}, recipientPubkey),
         forgedEvent(NotJson, key, recipientPubkey),
         forgedEvent(forgedSeal(NotJson, {}, getPublicKey(Mallory)), key,
                     recipientPubkey),
         forgedEvent(forgedSeal(NotJson, key, getPublicKey(Mallory)), key,
                     recipientPubkey) }

\* well-formed events with a false author: a seal that names senderPubkey
\* (under a key the recipient cannot derive from it), a rumor that names
\* senderPubkey inside a seal of Mallory, a rumor without pubkey
MisattributedEvents(content, senderPubkey, recipientPubkey) ==
    LET key == getConversationKey(Mallory, recipientPubkey)
        rumorBy(pubkey) == stringifyRumor(createRumor(content, pubkey, 0))
    IN { forgedEvent(forgedSeal(rumorBy(senderPubkey), key, senderPubkey), key,
                     recipientPubkey),
         forgedEvent(forgedSeal(rumorBy(senderPubkey), key, getPublicKey(Mallory)),
                     key, recipientPubkey),
         forgedEvent(forgedSeal(rumorBy(Undefined), key, getPublicKey(Mallory)),
                     key, recipientPubkey) }

\* events anybody can make and address to recipientPubkey
ForgedEvents(content, senderPubkey, recipientPubkey) ==
    UnreadableEvents(recipientPubkey)
        \cup MisattributedEvents(content, senderPubkey, recipientPubkey)

\* a forged event arrives
Forge ==
    /\ Len(wraps) < MaxWraps
    /\ \E event \in ForgedEvents(message.content,
                                  getPublicKey(message.senderSecretKey),
                                  message.recipientPubkey) :
         wraps' = Append(wraps, event)
    /\ UNCHANGED <<exceptWrap, now, keysGenerated, message, unwrapRet>>

NextUnwrap ==
    \/ Wrap
    \/ Forge
    \/ Unwrap

SpecUnwrap == InitWrap /\ [][NextUnwrap]_vars

\* ---------------------------------------------------------------------------
\* sendGiftWrap (src/services/storageTransfer.ts, lines 286-343)
\* ---------------------------------------------------------------------------
MaxRelays == 2

\* the relays argument: relay k stands for the k-th relay URL
RelayLists == { [k \in 1..n |-> k] : n \in 0..MaxRelays }

\* sendGiftWrap(content, senderSecretKey, recipientPubkey, relays) on entry
sendFrame(relays) ==
    [pc |-> "start", relays |-> relays, published |-> <<>>, attempts |-> <<>>,
     successful |-> -1, error |-> "none"]

\* publishedEvent handing the seal to the pool
publishedEventSeal(rumor, seal, giftWrap) == seal

\* line 320: pool.publish([relay], giftWrap)
publishedEvent(rumor, seal, giftWrap) == giftWrap

\* allSettled answering as soon as one attempt has settled
anySettled(attempts) ==
    attempts = <<>> \/ \E k \in 1..Len(attempts) : attempts[k] # "pending"

\* line 317: Promise.allSettled answers when no attempt is pending
allSettled(attempts) == \A k \in 1..Len(attempts) : attempts[k] # "pending"

\* line 331: results.filter(r => r.status === 'fulfilled').length
successfulOf(attempts) ==
    Cardinality({ k \in 1..Len(attempts) : attempts[k] = "fulfilled" })

\* deliveryFailed never raising
deliveryFailedNever(successful) == FALSE

\* line 334: if (successful === 0)
deliveryFailed(successful) == successful = 0

\* everything but the frame of sendGiftWrap and the gift wrap it builds
exceptSend == <<routerVars, appVars, lnurlCall, addressCall, giftSub, quoteSub>>

InitSend ==
    /\ routerParked
    /\ appIdle
    /\ lnurlCall = Idle
    /\ addressCall = Idle
    /\ giftSub = Idle
    /\ quoteSub = Idle
    /\ now = SecondsPerDay
    /\ keysGenerated = 0
    /\ message \in [content : Contents, senderSecretKey : UserSecretKeys,
                    recipientPubkey : UserPubkeys]
    /\ wraps = <<>>
    /\ unwrapRet = Idle
    /\ sendCall \in { sendFrame(relays) : relays \in RelayLists }

\* lines 294-328: rumor, seal and gift wrap are built and relays.map starts
\* one publish per relay
SendBuild ==
    /\ sendCall.pc = "start"
    /\ \E sealOffset \in Offsets, wrapOffset \in Offsets :
         LET rumor == createRumor(message.content,
                                  getPublicKey(message.senderSecretKey), now)
             seal == createSeal(rumor, message.senderSecretKey,
                                message.recipientPubkey, randomNow(now, sealOffset))
             giftWrap == createGiftWrap(seal, message.recipientPubkey,
                                        generateSecretKey(keysGenerated),
                                        randomNow(now, wrapOffset))
         IN /\ wraps' = Append(wraps, giftWrap)
            /\ sendCall' =
                 [sendCall EXCEPT
                    !.pc = "publishing",
                    !.published =
                        [k \in 1..Len(sendCall.relays) |->
                            [relay |-> sendCall.relays[k],
                             event |-> publishedEvent(rumor, seal, giftWrap)]],
                    !.attempts = [k \in 1..Len(sendCall.relays) |-> "pending"]]
    /\ keysGenerated' = keysGenerated + 1
    /\ UNCHANGED <<exceptSend, now, message, unwrapRet>>

\* lines 319-326: the publish on one relay is accepted or rejected
Settle ==
    /\ sendCall.pc = "publishing"
    /\ \E k \in 1..Len(sendCall.attempts), res \in {"fulfilled", "rejected"} :
         /\ sendCall.attempts[k] = "pending"
         /\ sendCall' = [sendCall EXCEPT !.attempts[k] = res]
    /\ UNCHANGED <<exceptSend, wrapVars>>

\* lines 331-342: all attempts have settled, the fulfilled ones are counted
Aggregate ==
    /\ sendCall.pc = "publishing"
    /\ allSettled(sendCall.attempts)
    /\ LET successful == successfulOf(sendCall.attempts)
       IN sendCall' =
            [sendCall EXCEPT
               !.successful = successful,
               !.pc = IF deliveryFailed(successful) THEN "thrown" ELSE "returned",
               !.error = IF deliveryFailed(successful)
                         THEN "Failed to send encrypted message" ELSE "none"]
    /\ UNCHANGED <<exceptSend, wrapVars>>

NextSend ==
    \/ SendBuild
    \/ Settle
    \/ Aggregate

SpecSend == InitSend /\ [][NextSend]_vars

\* ---------------------------------------------------------------------------
\* subscribeToGiftWraps (src/services/storageTransfer.ts, lines 377-410)
\* ---------------------------------------------------------------------------
MaxSubscriptions == 2
MaxEvents == 2

\* the identity that subscribes: the recipient of the message
userSecretKey ==
    CHOOSE sk \in UserSecretKeys : getPublicKey(sk) = message.recipientPubkey

\* the gift wrap a sender builds from the message
HonestEvent ==
    createGiftWrap(
        createSeal(createRumor(message.content,
                               getPublicKey(message.senderSecretKey), now),
                   message.senderSecretKey, message.recipientPubkey,
                   randomNow(now, 0)),
        message.recipientPubkey, generateSecretKey(0), randomNow(now, 0))

\* line 384: the events matching { kinds: [1059], '#p': [userPubkey] }
Incoming ==
    { event \in {HonestEvent} \cup
                MisattributedEvents(message.content,
                                    getPublicKey(message.senderSecretKey),
                                    message.recipientPubkey) :
        /\ event.kind = 1059
        /\ event.tags = << <<"p", getPublicKey(userSecretKey)>> >> }

\* senderOf taking the public key of the outer event
senderOfEvent(rumor, event) == event.pubkey

\* line 393: rumor.pubkey || ''
senderOf(rumor, event) ==
    IF rumor.pubkey \in {Undefined, <<>>} THEN <<>> ELSE rumor.pubkey

\* the catch block closing the subscriptions
onFailureClose(subs) == [k \in 1..Len(subs) |-> "closed"]

\* lines 395-397: the catch block logs the error, nothing else
onFailure(subs) == subs

\* everything but the gift-wrap subscriptions
exceptSub == <<routerVars, appVars, lnurlCall, addressCall, wrapVars, sendCall, quoteSub>>

InitSub ==
    /\ routerParked
    /\ appIdle
    /\ lnurlCall = Idle
    /\ addressCall = Idle
    /\ sendCall = Idle
    /\ quoteSub = Idle
    /\ now = SecondsPerDay
    /\ keysGenerated = 0
    /\ message \in [content : {<<"b", "q">>}, senderSecretKey : UserSecretKeys,
                    recipientPubkey : UserPubkeys]
    /\ wraps = <<>>
    /\ unwrapRet = Idle
    /\ giftSub = [pc |-> "open", subs |-> <<>>, received |-> <<>>,
                  pending |-> <<>>, calls |-> <<>>]

liveSubs == { k \in 1..Len(giftSub.subs) : giftSub.subs[k] = "live" }

\* lines 377-409: subscribeToGiftWraps opens a subscription on the pool and
\* returns its disposer
SubscribeGiftWraps ==
    /\ giftSub.pc = "open"
    /\ Len(giftSub.subs) < MaxSubscriptions
    /\ giftSub' = [giftSub EXCEPT !.subs = Append(giftSub.subs, "live")]
    /\ UNCHANGED exceptSub

\* lines 407-409: the disposer of subscription k is called
DisposeGiftWraps ==
    /\ giftSub.pc = "open"
    /\ \E k \in 1..Len(giftSub.subs) :
         giftSub' = [giftSub EXCEPT !.subs[k] = "closed"]
    /\ UNCHANGED exceptSub

\* lines 389-391: the pool hands an event to onevent of every live
\* subscription; each handler run suspends at its await of unwrapGiftWrap
Deliver ==
    /\ giftSub.pc = "open"
    /\ Len(giftSub.received) < MaxEvents
    /\ liveSubs # {}
    /\ \E event \in Incoming :
         LET isLive(k) == giftSub.subs[k] = "live"
             live == SelectSeq([k \in 1..Len(giftSub.subs) |-> k], isLive)
             at == Len(giftSub.received) + 1
         IN giftSub' =
              [giftSub EXCEPT
                 !.received = Append(giftSub.received,
                                     [event |-> event, to |-> liveSubs]),
                 !.pending = giftSub.pending \o
                             [n \in 1..Len(live) |-> [sub |-> live[n], at |-> at]]]
    /\ UNCHANGED exceptSub

\* lines 391-397: the handler run that was suspended first resumes: the
\* rumor goes to onMessage, a failure is logged
FinishUnwrap ==
    /\ giftSub.pc = "open"
    /\ giftSub.pending # <<>>
    /\ LET run == Head(giftSub.pending)
           event == giftSub.received[run.at].event
           res == unwrapGiftWrap(event, userSecretKey)
       IN giftSub' =
            [giftSub EXCEPT
               !.pending = Tail(giftSub.pending),
               !.calls =
                   IF res.k = "rumor"
                   THEN Append(giftSub.calls,
                               [sub |-> run.sub, at |-> run.at, rumor |-> res.rumor,
                                senderPubkey |-> senderOf(res.rumor, event)])
                   ELSE giftSub.calls,
               !.subs = IF res.k = "rumor" THEN giftSub.subs
                        ELSE onFailure(giftSub.subs)]
    /\ UNCHANGED exceptSub

NextSub ==
    \/ SubscribeGiftWraps
    \/ DisposeGiftWraps
    \/ Deliver
    \/ FinishUnwrap

SpecSub == InitSub /\ [][NextSub]_vars

\* ---------------------------------------------------------------------------
\* subscribeToQuoteUpdates, unsubscribeFromQuoteUpdates
\* (src/services/mnemonicService.ts, lines 471-524)
\* ---------------------------------------------------------------------------
MaxSubscribes == 4
MaxDisposerCalls == 2

\* line 433: let subscriptionDisposer = null
NoDisposer == 0

\* lines 475, 511: () => { }
NoOpDisposer == 0

\* the clean-up leaving the existing subscription open
afterCleanupKept(subs, handle) == subs

\* lines 484-488: subscriptionDisposer() closes the subscription it was
\* returned for
afterCleanup(subs, handle) ==
    IF handle # NoDisposer THEN [subs EXCEPT ![handle] = "closed"] ELSE subs

\* the number of times each subscription's disposer has run, after one more
\* run of the disposer handle
invoke(invoked, handle) ==
    IF handle # NoDisposer THEN [invoked EXCEPT ![handle] = @ + 1] ELSE invoked

\* everything but the quote subscription
exceptQuote == <<routerVars, appVars, lnurlCall, addressCall, wrapVars, sendCall, giftSub>>

InitQuote ==
    /\ routerParked
    /\ appIdle
    /\ lnurlCall = Idle
    /\ addressCall = Idle
    /\ wrapIdle
    /\ sendCall = Idle
    /\ giftSub = Idle
    /\ quoteSub = [pc |-> "open", subscriptionDisposer |-> NoDisposer,
                   subs |-> <<>>, invoked |-> <<>>, returned |-> <<>>]

liveQuoteSubs == { k \in 1..Len(quoteSub.subs) : quoteSub.subs[k] = "live" }

\* lines 471-513: subscribeToQuoteUpdates with or without a session; the
\* existing disposer and client.subscribe may throw
SubscribeQuote ==
    /\ quoteSub.pc = "open"
    /\ Len(quoteSub.returned) < MaxSubscribes
    /\ \E session \in BOOLEAN,
          outcome \in {"subscribed", "disposerThrows", "subscribeThrows"},
          closedBeforeThrow \in BOOLEAN :
         LET handle == quoteSub.subscriptionDisposer
             cleaned == afterCleanup(quoteSub.subs, handle)
             new == Len(quoteSub.subs) + 1
         IN IF ~session
            THEN quoteSub' =
                   [quoteSub EXCEPT
                      !.returned = Append(quoteSub.returned,
                                          [disposer |-> NoOpDisposer,
                                           onError |-> FALSE])]
            ELSE IF outcome = "disposerThrows"
            THEN /\ handle # NoDisposer
                 /\ quoteSub' =
                      [quoteSub EXCEPT
                         !.subs = IF closedBeforeThrow THEN cleaned
                                  ELSE quoteSub.subs,
                         !.invoked = invoke(quoteSub.invoked, handle),
                         !.returned = Append(quoteSub.returned,
                                             [disposer |-> NoOpDisposer,
                                              onError |-> TRUE])]
            ELSE IF outcome = "subscribeThrows"
            THEN quoteSub' =
                   [quoteSub EXCEPT
                      !.subs = cleaned,
                      !.invoked = invoke(quoteSub.invoked, handle),
                      !.subscriptionDisposer = NoDisposer,
                      !.returned = Append(quoteSub.returned,
                                          [disposer |-> NoOpDisposer,
                                           onError |-> TRUE])]
            ELSE quoteSub' =
                   [quoteSub EXCEPT
                      !.subs = Append(cleaned, "live"),
                      !.invoked = Append(invoke(quoteSub.invoked, handle), 0),
                      !.subscriptionDisposer = new,
                      !.returned = Append(quoteSub.returned,
                                          [disposer |-> new, onError |-> FALSE])]
    /\ UNCHANGED exceptQuote

\* lines 518-524: unsubscribeFromQuoteUpdates
UnsubscribeQuote ==
    /\ quoteSub.pc = "open"
    /\ quoteSub.subscriptionDisposer # NoDisposer
    /\ quoteSub' =
         [quoteSub EXCEPT
            !.subs = afterCleanup(quoteSub.subs, quoteSub.subscriptionDisposer),
            !.invoked = invoke(quoteSub.invoked, quoteSub.subscriptionDisposer),
            !.subscriptionDisposer = NoDisposer]
    /\ UNCHANGED exceptQuote

\* a caller calls a disposer that subscribeToQuoteUpdates returned
CallDisposer ==
    /\ quoteSub.pc = "open"
    /\ \E r \in 1..Len(quoteSub.returned) :
         LET disposer == quoteSub.returned[r].disposer
         IN /\ disposer # NoOpDisposer => quoteSub.invoked[disposer] < MaxDisposerCalls
            /\ quoteSub' =
                 [quoteSub EXCEPT
                    !.subs = afterCleanup(quoteSub.subs, disposer),
                    !.invoked = invoke(quoteSub.invoked, disposer)]
    /\ UNCHANGED exceptQuote

NextQuote ==
    \/ SubscribeQuote
    \/ UnsubscribeQuote
    \/ CallDisposer

SpecQuote == InitQuote /\ [][NextQuote]_vars

\* ---------------------------------------------------------------------------
\* getBtcPrice (src/services/priceService.ts, lines 7-62)
\* ---------------------------------------------------------------------------
MaxClock == 6
MaxPrice == 2
MaxPriceCalls == 2

\* line 7: 5 * 60 * 1000 ms; the clock of the model counts minutes
CACHE_DURATION == 5

\* line 14: let cachedPrice = null (a cached price is never 0, line 42)
NoCache == [usd |-> 0, timestamp |-> 0]

\* the null that getBtcPrice returns
NoPrice == -1

\* line 23: cachedPrice && Date.now() - cachedPrice.timestamp < CACHE_DURATION
isFresh(cache, t) ==
    cache # NoCache /\ t - cache.timestamp < CACHE_DURATION

\* what the fetch of line 30 and response.json() of line 39 can give: a
\* rejection or a response that is not ok, or a body whose USD is 0 (or
\* missing, or no number) or a price
FetchOutcomes ==
    {[ok |-> FALSE, usd |-> 0]} \cup [ok : {TRUE}, usd : 0..MaxPrice]

\* lines 35, 41: response.ok, data.USD && typeof data.USD === 'number'
validPrice(data) == data.ok /\ data.usd # 0

\* onFetchFailure forgetting the stale price
onFetchFailureNull(cache) == NoPrice

\* lines 55-61: the stale price if there is one, null otherwise
onFetchFailure(cache) == IF cache # NoCache THEN cache.usd ELSE NoPrice

\* everything but the price service
exceptPrice == <<routerVars, lnurlCall, addressCall, wrapVars, messagingVars,
                 verification, scanner>>

InitPrice ==
    /\ routerParked
    /\ lnurlCall = Idle
    /\ addressCall = Idle
    /\ wrapIdle
    /\ messagingIdle
    /\ verification = Idle
    /\ scanner = Idle
    /\ priceService = [clock |-> 0, cachedPrice |-> NoCache, calls |-> <<>>]

\* a minute passes
PriceTick ==
    /\ priceService.clock < MaxClock
    /\ priceService' = [priceService EXCEPT !.clock = @ + 1]
    /\ UNCHANGED exceptPrice

\* lines 21-34: getBtcPrice is called; it returns the fresh cached price or
\* issues the fetch
GetBtcPrice ==
    /\ Len(priceService.calls) < MaxPriceCalls
    /\ LET cache == priceService.cachedPrice
           fresh == isFresh(cache, priceService.clock)
       IN priceService' =
            [priceService EXCEPT
               !.calls = Append(priceService.calls,
                   [pc |-> IF fresh THEN "returned" ELSE "fetching",
                    fetched |-> ~fresh,
                    seen |-> cache,
                    at |-> priceService.clock,
                    data |-> [ok |-> FALSE, usd |-> 0],
                    value |-> IF fresh THEN cache.usd ELSE NoPrice])]
    /\ UNCHANGED exceptPrice

\* lines 35-61: the fetch of a call settles
FetchDone ==
    /\ \E c \in 1..Len(priceService.calls), data \in FetchOutcomes :
         /\ priceService.calls[c].pc = "fetching"
         /\ priceService' =
              [priceService EXCEPT
                 !.cachedPrice =
                     IF validPrice(data)
                     THEN [usd |-> data.usd, timestamp |-> priceService.clock]
                     ELSE priceService.cachedPrice,
                 !.calls[c] =
                     [priceService.calls[c] EXCEPT
                        !.pc = "returned",
                        !.data = data,
                        !.value = IF validPrice(data) THEN data.usd
                                  ELSE onFetchFailure(priceService.cachedPrice)]]
    /\ UNCHANGED exceptPrice

NextPrice ==
    \/ PriceTick
    \/ GetBtcPrice
    \/ FetchDone

SpecPrice == InitPrice /\ [][NextPrice]_vars

\* ---------------------------------------------------------------------------
\* getVerificationIndices (src/services/mnemonicService.ts, lines 411-420)
\* ---------------------------------------------------------------------------
MaxWords == 5

\* line 411: verifyCount = 3, also the argument of MnemonicBackup
\* (src/unnamed/part_005, line 45)
DefaultVerifyCount == 3

\* indices.includes(idx)
includes(indices, idx) == \E k \in 1..Len(indices) : indices[k] = idx

\* line 419: indices.sort((a, b) => a - b)
RECURSIVE sortAscending(_)
sortAscending(indices) ==
    IF indices = <<>> THEN <<>>
    ELSE LET least == CHOOSE k \in 1..Len(indices) :
                          \A j \in 1..Len(indices) : indices[k] <= indices[j]
         IN <<indices[least]>> \o
            sortAscending([j \in 1..Len(indices) - 1 |->
                              IF j < least THEN indices[j] ELSE indices[j + 1]])

\* everything but the frame of getVerificationIndices
exceptVerification == <<routerVars, lnurlCall, addressCall, wrapVars,
                        messagingVars, priceService, scanner>>

\* words.length is at least 1: split of any string has an element
InitVerification ==
    /\ routerParked
    /\ lnurlCall = Idle
    /\ addressCall = Idle
    /\ wrapIdle
    /\ messagingIdle
    /\ priceService = Idle
    /\ scanner = Idle
    /\ verification \in { [pc |-> "loop", wordCount |-> n,
                            verifyCount |-> DefaultVerifyCount,
                            indices |-> <<>>, ret |-> <<>>] : n \in 1..MaxWords }

\* lines 413-418: one turn of the loop in which Math.random gives idx
Draw(idx) ==
    /\ verification.pc = "loop"
    /\ Len(verification.indices) < verification.verifyCount
    /\ idx < verification.wordCount
    /\ verification' =
         [verification EXCEPT
            !.indices = IF includes(verification.indices, idx)
                        THEN verification.indices
                        ELSE Append(verification.indices, idx)]
    /\ UNCHANGED exceptVerification

\* lines 413, 419: the loop ends and the sorted indices are returned
ReturnIndices ==
    /\ verification.pc = "loop"
    /\ Len(verification.indices) >= verification.verifyCount
    /\ verification' =
         [verification EXCEPT
            !.pc = "returned", !.ret = sortAscending(verification.indices)]
    /\ UNCHANGED exceptVerification

NextVerification ==
    \/ \E idx \in 0..MaxWords - 1 : Draw(idx)
    \/ ReturnIndices

SpecVerification == InitVerification /\ [][NextVerification]_vars

\* fair random draws: a value that can be drawn again and again is drawn
SpecVerificationFair ==
    /\ SpecVerification
    /\ \A idx \in 0..MaxWords - 1 : SF_vars(Draw(idx))
    /\ WF_vars(ReturnIndices)

\* ---------------------------------------------------------------------------
\* Web QR scanner: startWebScanner, stopScanner (src/unnamed/part_004,
\* lines 104-117 and 197-278)
\* ---------------------------------------------------------------------------
\* line 212: retryCount < 10
RetryLimit == 10

\* lines 104-117: the stream is stopped and the animation frame cancelled;
\* initializationTimeoutRef is never assigned, so no timer is cleared
stopScanner(sc) == [sc EXCEPT !.stream = FALSE, !.frame = FALSE]

\* everything but the scanner
exceptScanner == <<routerVars, lnurlCall, addressCall, wrapVars, messagingVars,
                   priceService, verification>>

\* the component is active with the web scanner; the video element may or
\* may not be mounted when the effect of line 281 runs
InitScanner ==
    /\ routerParked
    /\ lnurlCall = Idle
    /\ addressCall = Idle
    /\ wrapIdle
    /\ messagingIdle
    /\ priceService = Idle
    /\ verification = Idle
    /\ \E video \in BOOLEAN :
         scanner = [pc |-> "start", retryCount |-> 0, video |-> video,
                    armed |-> {}, stream |-> FALSE, frame |-> FALSE,
                    cameraError |-> "null", loading |-> FALSE, timeouts |-> 0]

\* the video element is mounted
VideoMount ==
    /\ scanner.pc \in {"start", "waitRetry"}
    /\ ~scanner.video
    /\ scanner' = [scanner EXCEPT !.video = TRUE]
    /\ UNCHANGED exceptScanner

\* lines 197-225: startWebScanner(retryCount) up to its first await; the
\* timer it arms is named by its retryCount
StartWebScanner ==
    /\ scanner.pc = "start"
    /\ LET armed == [scanner EXCEPT !.armed = @ \cup {scanner.retryCount}]
       IN scanner' =
            IF ~scanner.video
            THEN IF scanner.retryCount < RetryLimit
                 THEN [armed EXCEPT !.pc = "waitRetry"]
                 ELSE [scanner EXCEPT
                         !.pc = "failed",
                         !.cameraError = "Camera initialization failed (Video Element Missing)."]
            ELSE stopScanner([armed EXCEPT !.pc = "acquiring",
                                           !.cameraError = "null",
                                           !.loading = TRUE])
    /\ UNCHANGED exceptScanner

\* line 213: 100 ms later startWebScanner(retryCount + 1) runs
Retry ==
    /\ scanner.pc = "waitRetry"
    /\ scanner' = [scanner EXCEPT !.pc = "start", !.retryCount = @ + 1]
    /\ UNCHANGED exceptScanner

\* lines 227-250 and 267-277: getUserMedia gives a stream, or fails twice
Acquire ==
    /\ scanner.pc = "acquiring"
    /\ \E ok \in BOOLEAN :
         scanner' =
           IF ok
           THEN [scanner EXCEPT !.pc = "play",
                                !.armed = @ \ {scanner.retryCount},
                                !.stream = TRUE]
           ELSE stopScanner([scanner EXCEPT !.pc = "failed",
                                            !.armed = @ \ {scanner.retryCount},
                                            !.cameraError = "Camera failed",
                                            !.loading = FALSE])
    /\ UNCHANGED exceptScanner

\* lines 252-265 and 267-277: video.play() resolves, is aborted, or fails
Play ==
    /\ scanner.pc = "play"
    /\ \E res \in {"playing", "AbortError", "error"} :
         scanner' =
           IF res = "playing"
           THEN [scanner EXCEPT !.pc = "done", !.loading = FALSE, !.frame = TRUE]
           ELSE IF res = "AbortError"
           THEN [scanner EXCEPT !.pc = "aborted", !.loading = FALSE]
           ELSE stopScanner([scanner EXCEPT !.pc = "failed",
                                            !.armed = @ \ {scanner.retryCount},
                                            !.cameraError = "Camera failed",
                                            !.loading = FALSE])
    /\ UNCHANGED exceptScanner

\* lines 203-208: the armed timer that was set first reaches its 5000 ms;
\* the retries (100 ms apart, at most 10) are over by then
TimeoutFires ==
    /\ scanner.pc \notin {"start", "waitRetry"}
    /\ scanner.armed # {}
    /\ LET first == CHOOSE t \in scanner.armed : \A u \in scanner.armed : t <= u
       IN scanner' =
            stopScanner([scanner EXCEPT
                           !.armed = @ \ {first},
                           !.cameraError = "CameraInitTimeout - Initialization took too long.",
                           !.loading = FALSE,
                           !.timeouts = @ + 1])
    /\ UNCHANGED exceptScanner

NextScanner ==
    \/ VideoMount
    \/ StartWebScanner
    \/ Retry
    \/ Acquire
    \/ Play
    \/ TimeoutFires

SpecScanner == InitScanner /\ [][NextScanner]_vars

\* ---------------------------------------------------------------------------
\* Properties of routePayment
\* ---------------------------------------------------------------------------
called(op) == \E k \in 1..Len(calls) : calls[k].op = op
calledWith(op, res) == \E k \in 1..Len(calls) : calls[k].op = op /\ calls[k].res = res
calledOk(op) == calledWith(op, "ok")
entered(rail) == \E k \in 1..Len(rails) : rails[k] = rail
lastCall == calls[Len(calls)]

\* the step just taken issued the call op
issues(op) == Len(calls') = Len(calls) + 1 /\ calls'[Len(calls')].op = op

\* C1: with the direct wallet uninitialized, the invoice resolution returning
\* null and no mint function supplied, routePayment returns success = false
\* and method = 'failed'.
C1_NoRailAvailableFails ==
    (pc = "routeDone" /\ ~breezInit /\ ~truthy(invoice) /\ ~hasMintFn)
        => (ret.success = FALSE /\ ret.method = "failed")

C1_Witness ==
    /\ pc = "routeDone"
    /\ ~breezInit
    /\ calledWith("lnurlp", "fail")
    /\ invoice = NoInvoice
    /\ ~hasMintFn
    /\ ret = AllFailed

rank(op) ==
    CASE op = "fetchProfile" -> 1
      [] op = "getBreezBalance" -> 2
      [] op = "breezPay" -> 3
      [] op = "lnurlp" -> 4
      [] op = "lnurlCallback" -> 5
      [] op = "melt" -> 6
      [] op = "mint" -> 7
      [] op = "sendGiftWrap" -> 8

railRank(rail) ==
    CASE rail = "breez" -> 1
      [] rail = "lnurl" -> 2
      [] rail = "dm" -> 3

railOf(op) ==
    CASE op = "breezPay" -> "breez"
      [] op = "melt" -> "lnurl"
      [] op = "sendGiftWrap" -> "dm"

\* C3: the collaborators of one routePayment call are invoked in the order
\* profile lookup, balance query, direct send, LNURL discovery, LNURL
\* callback, melt, mint, gift-wrap send, each at most once; the rails are
\* entered in the order direct wallet, LNURL, DM; and after a rail has
\* succeeded nothing more is invoked and the call returns.
C3_RailsInOrderOnce ==
    /\ \A j, k \in 1..Len(calls) : j < k => rank(calls[j].op) < rank(calls[k].op)
    /\ \A j, k \in 1..Len(rails) : j < k => railRank(rails[j]) < railRank(rails[k])
    /\ \A k \in 1..Len(calls) :
         (calls[k].op \in {"breezPay", "melt", "sendGiftWrap"} /\ calls[k].res = "ok")
            => /\ k = Len(calls)
               /\ pc = "routeDone"
               /\ rails[Len(rails)] = railOf(calls[k].op)

C3_Witness ==
    /\ pc = "routeDone"
    /\ rails = <<"breez", "lnurl", "dm">>
    /\ Len(calls) = 8
    /\ calledWith("breezPay", "fail")
    /\ calledWith("melt", "fail")
    /\ calledOk("sendGiftWrap")

\* C4: the direct send is issued only by a call whose executor reported
\* itself initialized and whose balance query answered at least
\* recipient.amountSats; an uninitialized executor or a smaller balance takes
\* the call to the LNURL rail with no direct send.
C4_DirectSendGuarded ==
    /\ [](called("breezPay") => (breezInit /\ calledOk("getBreezBalance")))
    /\ []((pc \in {"lnurlDiscover", "lnurlCallback", "melt", "mint", "sendDm", "routeDone"}
            /\ ~breezInit)
          => (entered("lnurl") /\ ~called("getBreezBalance") /\ ~called("breezPay")))
    /\ [][issues("breezPay") => (breezInit /\ balance >= recipient.amountSats)]_vars
    /\ [][(pc = "breezCheck" /\ balance < recipient.amountSats)
            => (pc' = "lnurlDiscover" /\ calls' = calls /\ entered("lnurl")')]_vars

C4_Witness ==
    /\ pc = "lnurlDiscover"
    /\ breezInit
    /\ calledOk("getBreezBalance")
    /\ ~called("breezPay")
    /\ rails = <<"breez", "lnurl">>

C6_LnurlRail ==
    /\ calledOk("melt") => (pc = "routeDone" /\ ret.success /\ lastCall.op = "melt")
    /\ (entered("lnurl") /\ pc \in {"mint", "sendDm", "routeDone"} /\ ~calledOk("melt"))
          => /\ entered("dm")
             /\ hasMintFn => (pc = "mint" \/ called("mint"))
    /\ (called("melt") /\ ~calledOk("melt")) => entered("dm")
    /\ (entered("lnurl") /\ ~entered("dm") /\ pc = "routeDone") => calledOk("melt")

C6_Witness ==
    /\ pc = "routeDone"
    /\ calledWith("melt", "throw")
    /\ called("mint")

\* C7: when the DM fallback is reached and the mint function is absent or
\* raises, routePayment ends with {success: false, method: 'failed'} and sends
\* no gift wrap.
C7_NoTokenNoDm ==
    (entered("dm") /\ (~hasMintFn \/ calledWith("mint", "throw")))
        => /\ pc = "routeDone"
           /\ ret.success = FALSE
           /\ ret.method = "failed"
           /\ ~called("sendGiftWrap")
           /\ ~hasMintFn => ~called("mint")

C7_Witness ==
    /\ pc = "routeDone"
    /\ hasMintFn
    /\ calledWith("mint", "throw")
    /\ ret = AllFailed

\* C8: in the DM fallback the token is minted for exactly
\* recipient.amountSats and the gift wrap carrying it is addressed to
\* recipient.pubkey; a delivered gift wrap makes routePayment return success
\* with method 'cashu_dm', a failed delivery makes it return failure with
\* method 'failed'.
C8_DmDelivery ==
    /\ \A k \in 1..Len(calls) :
         /\ calls[k].op = "mint" => calls[k].amt = recipient.amountSats
         /\ calls[k].op = "sendGiftWrap"
              => /\ calls[k].to = recipient.pubkey
                 /\ calls[k].amt = recipient.amountSats
                 /\ token = <<"cashuA", recipient.amountSats>>
                 /\ pc = "routeDone"
                 /\ calls[k].res = "ok" => ret = Result(TRUE, "cashu_dm", "none")
                 /\ calls[k].res # "ok" => (ret.success = FALSE /\ ret.method = "failed")
    /\ (pc = "routeDone" /\ ret.method = "cashu_dm") => calledOk("sendGiftWrap")

C8_Witness ==
    /\ pc = "routeDone"
    /\ recipient.amountSats = MaxAmount
    /\ calledOk("mint")
    /\ calledWith("sendGiftWrap", "throw")
    /\ ret.method = "failed"

\* C9: a returned PaymentResult has success = true exactly when its method is
\* not 'failed', and its method names the rail that succeeded: 'breez' the
\* direct send, 'lnurl' a melt of an invoice for the profile's own address,
\* 'npubcash' a melt of an invoice for the fallback address, 'cashu_dm' the
\* delivered gift wrap; 'failed' when none of them succeeded.
C9_MethodNamesRail ==
    pc = "routeDone" =>
        /\ ret.success <=> ret.method # "failed"
        /\ ret.method \in {"breez", "lnurl", "npubcash", "cashu_dm", "failed"}
        /\ ret.method = "breez" <=> calledOk("breezPay")
        /\ ret.method = "lnurl" <=> (calledOk("melt") /\ address \in Lud16Values)
        /\ ret.method = "npubcash"
              <=> (calledOk("melt") /\ address = fallbackAddress(recipient.pubkey))
        /\ ret.method = "cashu_dm" <=> calledOk("sendGiftWrap")
        /\ source = "kind0" <=> address \in Lud16Values

C9_Witness ==
    /\ pc = "routeDone"
    /\ ret = Result(TRUE, "npubcash", "none")
    /\ entered("breez")
    /\ address = fallbackAddress(recipient.pubkey)

\* ---------------------------------------------------------------------------
\* Properties of processPayouts
\* ---------------------------------------------------------------------------
recipientKeys == { recipients[k].pubkey : k \in 1..Len(recipients) }

inRoute ==
    pc \in {"getAddress", "breezBalance", "breezCheck", "lnurlDiscover",
            "lnurlCallback", "melt", "mint", "sendDm", "routeDone", "thrown"}

\* C11: processPayouts routes the recipients one after the other in input
\* order: while recipient i is routed exactly the i - 1 recipients before it
\* have had their result recorded, every collaborator call outstanding or
\* made belongs to the routePayment call of recipient i, and between two
\* routePayment calls no collaborator call is open, so that at most one
\* payment is in flight.
C11_SequentialInOrder ==
    /\ [](/\ inRoute => /\ i \in 1..Len(recipients)
                        /\ successCount + failCount = i - 1
          /\ pc = "loop" => successCount + failCount = i - 1
          /\ pc = "delay" => successCount + failCount = i
          /\ pc = "returned" => successCount + failCount = Len(recipients)
          /\ pc \in {"loop", "delay", "returned"} => (calls = <<>> /\ rails = <<>>)
          /\ \A k \in 1..Len(calls) :
               /\ calls[k].op = "fetchProfile" => calls[k].to = recipient.pubkey
               /\ calls[k].op = "sendGiftWrap" => calls[k].to = recipient.pubkey)
    /\ [][i' # i => (i' = i + 1 /\ pc \in {"routeDone", "delay"} /\ calls' = <<>>)]_vars
    /\ [][calls' # calls /\ calls' # <<>> => (inRoute /\ inRoute' /\ i' = i)]_vars

C11_Witness ==
    /\ pc = "melt"
    /\ i = 2
    /\ successCount + failCount = 1
    /\ called("fetchProfile")
    /\ recipients[1].pubkey # recipients[2].pubkey

\* C12: after the result of recipient i is recorded processPayouts pauses
\* once before it routes recipient i + 1, and it does not pause after the
\* last recipient: the pause is entered exactly from a recorded result that
\* is not the last, it leads to the routing of the next recipient, and the
\* routing of a recipient other than the first starts only from a pause.
C12_DelayBetweenRecipients ==
    /\ [](pc = "delay" => (i < Len(recipients) /\ recipient.pubkey \in DOMAIN results))
    /\ [][pc = "routeDone"
            => (pc' = IF i < Len(recipients) THEN "delay" ELSE "loop")]_vars
    /\ [][pc' = "delay" => pc = "routeDone"]_vars
    /\ [][pc = "delay" => (pc' = "loop" /\ i' = i + 1 /\ i' <= Len(recipients))]_vars
    /\ [][(pc' = "loop" /\ i' \in 2..Len(recipients)) => pc = "delay"]_vars
    /\ [][(pc' = "loop" /\ i' > Len(recipients)) => pc = "routeDone"]_vars

C12_Witness ==
    /\ pc = "delay"
    /\ i = 1
    /\ Len(recipients) = 2
    /\ DOMAIN results = {recipients[1].pubkey}

\* ---------------------------------------------------------------------------
\* Properties of the LNURL resolution
\* ---------------------------------------------------------------------------
lnurlResolved == lnurlCall.pc \in {"getInvoice", "returned"}
callbackRequested ==
    \E k \in 1..Len(lnurlCall.requests) : lnurlCall.requests[k][1] = "callback"

\* amountSats lies outside the sat bounds of the endpoint
outsideBounds(amountSats, ep) ==
    \/ ~ep.minSendable.nan /\ amountSats < ep.minSendable.v
    \/ ~ep.maxSendable.nan /\ amountSats > ep.maxSendable.v

\* C13: when amountSats lies outside [minSendable, maxSendable] of the
\* resolved endpoint, resolveAndGetInvoice returns null and issues no
\* callback request.
C13_OutOfBoundsNoCallback ==
    (lnurlResolved /\ lnurlCall.resolved # NoEndpoint
        /\ outsideBounds(lnurlCall.amountSats, lnurlCall.resolved))
    => /\ lnurlCall.pc = "returned"
       /\ lnurlCall.ret = NoInvoice
       /\ ~callbackRequested
       /\ lnurlCall.requests = << <<"lnurlp", 0>> >>

C13_Witness ==
    /\ lnurlCall.pc = "returned"
    /\ lnurlCall.data.k = "ok"
    /\ lnurlCall.data.body.callback = "https://cb"
    /\ lnurlCall.resolved.minSendable = Num(2)
    /\ lnurlCall.resolved.maxSendable = Num(2)
    /\ lnurlCall.amountSats = 1
    /\ lnurlCall.ret = NoInvoice

\* C14: minSendable is the millisat minimum divided by 1000 rounded up and
\* maxSendable the millisat maximum divided by 1000 rounded down, so every
\* amountSats that passes the sat bounds check satisfies
\* minMsat <= amountSats * 1000 <= maxMsat, and the callback request carries
\* amountSats * 1000.
C14_ConservativeRounding ==
    lnurlResolved /\ lnurlCall.data.k = "ok" =>
        LET minMsat == lnurlCall.data.body.minSendable
            maxMsat == lnurlCall.data.body.maxSendable
            ep == lnurlCall.resolved
            passed == lnurlCall.pc = "getInvoice" \/ callbackRequested
        IN /\ ~minMsat.nan =>
                /\ ~ep.minSendable.nan
                /\ ep.minSendable.v * 1000 >= minMsat.v
                /\ (ep.minSendable.v - 1) * 1000 < minMsat.v
                /\ passed => minMsat.v <= lnurlCall.amountSats * 1000
           /\ ~maxMsat.nan =>
                /\ ~ep.maxSendable.nan
                /\ ep.maxSendable.v * 1000 <= maxMsat.v
                /\ (ep.maxSendable.v + 1) * 1000 > maxMsat.v
                /\ passed => lnurlCall.amountSats * 1000 <= maxMsat.v
           /\ \A k \in 1..Len(lnurlCall.requests) :
                lnurlCall.requests[k][1] = "callback"
                    => lnurlCall.requests[k][2] = lnurlCall.amountSats * 1000

C14_Witness ==
    /\ lnurlCall.pc = "returned"
    /\ callbackRequested
    /\ lnurlCall.data.body.minSendable = Num(1001)
    /\ lnurlCall.data.body.maxSendable = Num(2999)
    /\ lnurlCall.amountSats = 2

\* an address with exactly one '@' between a non-empty name and a non-empty
\* domain
wellFormedAddress(a) ==
    /\ Len(split(a)) = 2
    /\ split(a)[1] # <<>>
    /\ split(a)[2] # <<>>

\* a discovery body with callback, minSendable, maxSendable and metadata
hasRequiredFields(body) ==
    /\ body.callback # "undefined"
    /\ ~body.minSendable.nan
    /\ ~body.maxSendable.nan
    /\ body.metadata # "undefined"

\* C15: resolveLightningAddress never throws; it returns null for a
\* malformed address, a network error, a status outside 2xx and a body
\* lacking one of callback, minSendable, maxSendable, metadata, and it
\* returns an endpoint record only for a response with all required fields.
C15_NullUnlessComplete ==
    lnurlResolved =>
        (lnurlCall.resolved # NoEndpoint
            <=> /\ wellFormedAddress(lnurlCall.lightningAddress)
                /\ lnurlCall.data.k = "ok"
                /\ hasRequiredFields(lnurlCall.data.body))

\* C16: getInvoiceFromLnurl returns null when the callback request fails in
\* transport, answers outside 2xx or answers a body with status 'ERROR', and
\* the invoice string otherwise; resolveAndGetInvoice returns the bolt11 of a
\* successful callback for an amount in bounds, and returns nothing but null
\* or a bolt11 string.
C16_InvoiceOrNull ==
    lnurlCall.pc = "returned" =>
        /\ lnurlCall.ret \in {NoInvoice, Bolt11}
        /\ lnurlCall.callbackRes \in {"throw", "notOk", "statusError"}
              => lnurlCall.ret = NoInvoice
        /\ lnurlCall.callbackRes = "ok" => lnurlCall.ret = Bolt11
        /\ lnurlCall.ret = Bolt11 => lnurlCall.callbackRes = "ok"

\* ---------------------------------------------------------------------------
\* Properties of getRecipientLightningAddress
\* ---------------------------------------------------------------------------
\* '<npub-encoded pubkey>@npubx.cash'
expectedFallback(pubkey) == <<"npub1", pubkey, "@", "npubx.cash">>

C18_Kind0IffWellFormed ==
    addressCall.pc = "returned" =>
        LET p == addressCall.profile
            usable == p.k = "profile" /\ p.has /\ wellFormedAddress(p.lud16)
        IN /\ usable => addressCall.ret = [address |-> p.lud16, source |-> "kind0"]
           /\ ~usable => addressCall.ret =
                            [address |-> expectedFallback(addressCall.pubkey),
                             source |-> "npubcash"]

\* ---------------------------------------------------------------------------
\* Properties of the gift wrap
\* ---------------------------------------------------------------------------
\* C19: unwrapping with the recipient's secret key a gift wrap built from
\* (content, the sender's secret key, the recipient's public key) yields a
\* rumor whose content is the original content and whose pubkey is the
\* sender's public key.
C19_RoundTrip ==
    (unwrapRet # Idle /\ getPublicKey(unwrapRet.with) = message.recipientPubkey)
    => /\ unwrapRet.res.k = "rumor"
       /\ unwrapRet.res.rumor.content = message.content
       /\ unwrapRet.res.rumor.pubkey = getPublicKey(message.senderSecretKey)

C19_Witness ==
    /\ unwrapRet # Idle
    /\ unwrapRet.with = [who |-> "B", n |-> 0]
    /\ message.recipientPubkey = <<"B", 0>>
    /\ message.senderSecretKey = [who |-> "A", n |-> 0]
    /\ message.content = <<"b", "q">>
    /\ unwrapRet.res.k = "rumor"
    /\ unwrapRet.res.rumor.content = <<"b", "q">>

\* C20 as stated: two gift wraps built from the same sender, recipient and
\* content always differ in their outer public key and in their created_at.
C20_DistinctKeysAndTimes ==
    \A j, k \in 1..Len(wraps) :
        j # k => /\ wraps[j].pubkey # wraps[k].pubkey
                 /\ wraps[j].created_at # wraps[k].created_at

\* C20 (amended): two gift wraps built from the same sender, recipient and
\* content always differ in their outer public key, in their signer and in
\* their ciphertext; the created_at of each lies within the 24 hours before
\* the present and may be the same for both.
C20_DistinctOuterKeys ==
    /\ \A j, k \in 1..Len(wraps) :
         j # k => /\ wraps[j].pubkey # wraps[k].pubkey
                  /\ wraps[j].sig # wraps[k].sig
                  /\ wraps[j].content # wraps[k].content
    /\ \A j \in 1..Len(wraps) :
         /\ wraps[j].created_at <= now
         /\ wraps[j].created_at > now - MaxTicks - SecondsPerDay

C20_Witness ==
    /\ Len(wraps) = 2
    /\ wraps[1].pubkey # wraps[2].pubkey
    /\ wraps[1].created_at = wraps[2].created_at
    /\ now = SecondsPerDay + 1

\* the seal and the rumor inside a gift wrap built by the sender
sealIn(giftWrap) == parseSeal(giftWrap.content.plaintext)
rumorIn(giftWrap) == parseRumor(sealIn(giftWrap).content.plaintext)

\* C21: every gift wrap is encrypted under and signed with an ephemeral
\* secret of its own: the key is produced by the key generator inside the
\* wrap operation that uses it, no two gift wraps share it, it is not the
\* secret of the sender nor of any user, and the wrap operation leaves it in
\* no state but the gift wrap's public key and signature.
C21_EphemeralKeyOnce ==
    /\ [](/\ Len(wraps) = keysGenerated
          /\ \A j \in 1..Len(wraps) :
               /\ wraps[j].pubkey = <<"eph", j>>
               /\ wraps[j].sig = wraps[j].pubkey
               /\ wraps[j].content.key = {wraps[j].pubkey, message.recipientPubkey}
               /\ wraps[j].pubkey # getPublicKey(message.senderSecretKey)
               /\ wraps[j].pubkey \notin UserPubkeys
               /\ sealIn(wraps[j]).pubkey # wraps[j].pubkey
               /\ \A k \in 1..Len(wraps) : k # j => wraps[k].pubkey # wraps[j].pubkey)
    /\ [][wraps' # wraps
            => /\ Len(wraps') = Len(wraps) + 1
               /\ SubSeq(wraps', 1, Len(wraps)) = wraps
               /\ keysGenerated' = keysGenerated + 1
               /\ message' = message
               /\ unwrapRet' = unwrapRet]_vars

C21_Witness ==
    /\ Len(wraps) = 2
    /\ keysGenerated = 2
    /\ wraps[1].pubkey = <<"eph", 1>>
    /\ wraps[2].sig = <<"eph", 2>>
    /\ message.senderSecretKey = [who |-> "A", n |-> 0]

\* C23: the created_at of every seal and of every gift wrap is the time of
\* its creation minus an offset d with 0 <= d < 86400: never later than the
\* creation, never 24 hours or more before it; the offset of the seal and
\* the offset of the gift wrap of one message are two separate draws.
C23_CreatedAtWithinDay ==
    \A j \in 1..Len(wraps) :
        LET created == rumorIn(wraps[j]).created_at
            sealOffset == created - sealIn(wraps[j]).created_at
            wrapOffset == created - wraps[j].created_at
        IN /\ 0 <= sealOffset /\ sealOffset < 86400
           /\ 0 <= wrapOffset /\ wrapOffset < 86400
           /\ created <= now
           /\ wraps[j].created_at <= now
           /\ sealIn(wraps[j]).created_at <= now

C23_Witness ==
    /\ Len(wraps) = 2
    /\ sealIn(wraps[1]).created_at = rumorIn(wraps[1]).created_at
    /\ wraps[1].created_at = rumorIn(wraps[1]).created_at - 86399
    /\ sealIn(wraps[2]).created_at = rumorIn(wraps[2]).created_at - 86399
    /\ wraps[2].created_at = rumorIn(wraps[2]).created_at

\* ---------------------------------------------------------------------------
\* Properties of sendGiftWrap
\* ---------------------------------------------------------------------------
sendStarted == sendCall.pc \in {"publishing", "returned", "thrown"}
senderPubkey == getPublicKey(message.senderSecretKey)
accepted == \E k \in 1..Len(sendCall.attempts) : sendCall.attempts[k] = "fulfilled"

\* C22 as stated: the only event handed to the relay pool is the kind-1059
\* gift wrap with tags exactly [['p', recipientPubkey]] and the ephemeral
\* public key as pubkey, and the sender's public key appears neither in its
\* pubkey nor in its tags.
C22_SenderNeverShown ==
    sendStarted =>
        \A k \in 1..Len(sendCall.published) :
            LET event == sendCall.published[k].event
            IN /\ event.kind = 1059
               /\ event.tags = << <<"p", message.recipientPubkey>> >>
               /\ event.pubkey = <<"eph", 1>>
               /\ event.pubkey # senderPubkey
               /\ \A t \in 1..Len(event.tags) : event.tags[t][2] # senderPubkey

\* C22 (amended): the only event handed to the relay pool is the kind-1059
\* gift wrap with tags exactly [['p', recipientPubkey]] and the ephemeral
\* public key as pubkey; the rumor and the seal are not published; the
\* sender's public key is never the event's pubkey, and it is in the tags
\* only when the sender is the recipient.
C22_OnlyGiftWrapPublished ==
    sendStarted =>
        /\ Len(sendCall.published) = Len(sendCall.relays)
        /\ \A k \in 1..Len(sendCall.published) :
             LET event == sendCall.published[k].event
             IN /\ event = wraps[1]
                /\ event.kind = 1059
                /\ event.kind \notin {13, 14}
                /\ event.tags = << <<"p", message.recipientPubkey>> >>
                /\ event.pubkey = <<"eph", 1>>
                /\ event.sig = <<"eph", 1>>
                /\ event.pubkey # senderPubkey
                /\ senderPubkey # message.recipientPubkey
                     => \A t \in 1..Len(event.tags) : event.tags[t][2] # senderPubkey

C22_Witness ==
    /\ sendCall.pc = "returned"
    /\ Len(sendCall.published) = 2
    /\ senderPubkey = <<"A", 0>>
    /\ message.recipientPubkey = <<"B", 0>>
    /\ sendCall.published[2].event = wraps[1]
    /\ sendCall.published[2].event.tags = << <<"p", <<"B", 0>> >> >>

\* C24: sendGiftWrap completes without error exactly when at least one
\* relay accepted the event: rejections are ignored when some relay accepts,
\* and when every relay rejects, or the relay list is empty, the delivery
\* error is raised.
C24_SuccessIffAccepted ==
    sendCall.pc \in {"returned", "thrown"} =>
        /\ sendCall.pc = "returned" <=> accepted
        /\ sendCall.pc = "thrown" <=> ~accepted
        /\ sendCall.pc = "thrown" => sendCall.error = "Failed to send encrypted message"
        /\ sendCall.relays = <<>> => sendCall.pc = "thrown"

C24_Witness ==
    /\ sendCall.pc = "returned"
    /\ sendCall.attempts = <<"rejected", "fulfilled">>
    /\ sendCall.error = "none"

\* C25: every relay of the list gets a publish attempt of its own, started
\* before any outcome is known; an attempt settles on its own, leaving every
\* other attempt as it was; and the outcomes are counted only when no
\* attempt is pending.
C25_IndependentFanOut ==
    /\ [](sendStarted =>
            /\ Len(sendCall.attempts) = Len(sendCall.relays)
            /\ Len(sendCall.published) = Len(sendCall.relays)
            /\ \A k \in 1..Len(sendCall.relays) :
                 sendCall.published[k].relay = sendCall.relays[k])
    /\ [](sendCall.pc \in {"returned", "thrown"} =>
            /\ \A k \in 1..Len(sendCall.attempts) : sendCall.attempts[k] # "pending"
            /\ sendCall.successful =
                 Cardinality({ k \in 1..Len(sendCall.attempts) :
                                 sendCall.attempts[k] = "fulfilled" }))
    /\ [][(sendCall.pc = "publishing" /\ sendCall.attempts' # sendCall.attempts)
            => /\ sendCall.pc' = "publishing"
               /\ sendCall.published' = sendCall.published
               /\ \E k \in 1..Len(sendCall.attempts) :
                    /\ sendCall.attempts[k] = "pending"
                    /\ sendCall.attempts'[k] # "pending"
                    /\ \A j \in 1..Len(sendCall.attempts) :
                         j # k => sendCall.attempts'[j] = sendCall.attempts[j]]_vars
    /\ [][(sendCall.pc = "publishing" /\ sendCall.pc' # "publishing")
            => /\ sendCall.attempts' = sendCall.attempts
               /\ \A k \in 1..Len(sendCall.attempts) :
                    sendCall.attempts[k] # "pending"]_vars

C25_Witness ==
    /\ sendCall.pc = "publishing"
    /\ sendCall.attempts = <<"rejected", "pending">>
    /\ Len(sendCall.published) = 2

\* ---------------------------------------------------------------------------
\* Properties of unwrapGiftWrap on arbitrary events
\* ---------------------------------------------------------------------------
outerDecrypts(event, sk) == event.content.key = {getPublicKey(sk), event.pubkey}
sealParses(event) == event.content.plaintext.json # "invalid"
sealDecrypts(event, sk) ==
    event.content.plaintext.content.key =
        {getPublicKey(sk), event.content.plaintext.pubkey}
rumorText(event) == event.content.plaintext.content.plaintext
rumorParses(event) == rumorText(event).json # "invalid"

\* C26: unwrapGiftWrap either returns the rumor or raises the decryption
\* error: when the outer layer or the seal does not decrypt, or either
\* plaintext is not JSON, the result is the error 'Failed to decrypt message'
\* and carries no rumor; otherwise it is the rumor parsed from the seal's
\* plaintext.
C26_RumorOrDecryptError ==
    unwrapRet # Idle =>
        LET event == wraps[unwrapRet.of]
            sk == unwrapRet.with
            res == unwrapRet.res
            unwraps == /\ outerDecrypts(event, sk)
                       /\ sealParses(event)
                       /\ sealDecrypts(event, sk)
                       /\ rumorParses(event)
        IN /\ res.k \in {"rumor", "error"}
           /\ res.k = "error" <=> ~unwraps
           /\ res.k = "error" =>
                /\ res.error = "Failed to decrypt message"
                /\ res.rumor = NoRumor
           /\ res.k = "rumor" =>
                /\ res.error = "none"
                /\ res.rumor.kind = rumorText(event).kind
                /\ res.rumor.pubkey = rumorText(event).pubkey
                /\ res.rumor.created_at = rumorText(event).created_at
                /\ res.rumor.content = unescape(rumorText(event).content)

C26_Witness ==
    /\ unwrapRet # Idle
    /\ getPublicKey(unwrapRet.with) = message.recipientPubkey
    /\ outerDecrypts(wraps[unwrapRet.of], unwrapRet.with)
    /\ sealParses(wraps[unwrapRet.of])
    /\ sealDecrypts(wraps[unwrapRet.of], unwrapRet.with)
    /\ ~rumorParses(wraps[unwrapRet.of])
    /\ unwrapRet.res.k = "error"
    /\ unwrapRet.res.error = "Failed to decrypt message"

\* ---------------------------------------------------------------------------
\* Properties of subscribeToGiftWraps
\* ---------------------------------------------------------------------------
subscribing == giftSub # Idle
unwraps(event) ==
    /\ outerDecrypts(event, userSecretKey)
    /\ sealParses(event)
    /\ sealDecrypts(event, userSecretKey)
    /\ rumorParses(event)
dispatched(at, k) ==
    \E c \in 1..Len(giftSub.calls) :
        giftSub.calls[c].at = at /\ giftSub.calls[c].sub = k

unwrapping(at, k) ==
    \E p \in 1..Len(giftSub.pending) :
        giftSub.pending[p].at = at /\ giftSub.pending[p].sub = k

\* C27: an event whose unwrap fails is dropped: onMessage is not called for
\* it and no subscription is closed by it; every event that unwraps, also
\* one that arrives after a failed one, is dispatched to onMessage by every
\* handler run started for it, once that run has finished.
C27_FailedEventDropped ==
    /\ [](subscribing =>
            \A at \in 1..Len(giftSub.received) :
                \A k \in giftSub.received[at].to :
                    dispatched(at, k) <=>
                        (unwraps(giftSub.received[at].event) /\ ~unwrapping(at, k)))
    /\ [][(subscribing /\ Len(giftSub.pending') < Len(giftSub.pending)
               /\ ~unwraps(giftSub.received[giftSub.pending[1].at].event))
            => /\ giftSub.calls' = giftSub.calls
               /\ giftSub.subs' = giftSub.subs
               /\ giftSub.received' = giftSub.received]_vars

C27_Witness ==
    /\ subscribing
    /\ Len(giftSub.received) = 2
    /\ ~unwraps(giftSub.received[1].event)
    /\ unwraps(giftSub.received[2].event)
    /\ giftSub.received[1].to = {1}
    /\ giftSub.received[2].to = {1}
    /\ giftSub.pending = <<>>
    /\ Len(giftSub.calls) = 1
    /\ giftSub.calls[1].at = 2

\* C28: every onMessage call carries the rumor of the event it was made for
\* and, as senderPubkey, the pubkey member of that rumor (the empty string
\* when the rumor has none), not the public key of the outer event.
C28_SenderFromRumor ==
    subscribing =>
        \A c \in 1..Len(giftSub.calls) :
            LET call == giftSub.calls[c]
                event == giftSub.received[call.at].event
            IN /\ unwraps(event)
               /\ call.rumor.pubkey = rumorText(event).pubkey
               /\ call.rumor.content = unescape(rumorText(event).content)
               /\ call.senderPubkey =
                    (IF rumorText(event).pubkey = Undefined THEN <<>>
                     ELSE rumorText(event).pubkey)
               /\ call.senderPubkey # event.pubkey

C28_Witness ==
    /\ subscribing
    /\ Len(giftSub.calls) = 1
    /\ giftSub.calls[1].senderPubkey = <<"A", 0>>
    /\ giftSub.calls[1].rumor.pubkey = <<"A", 0>>
    /\ giftSub.received[giftSub.calls[1].at].event.pubkey = <<"eph", 1>>

\* C29: at most one gift-wrap subscription of the identity is live.
C29_AtMostOneLive ==
    subscribing => Cardinality(liveSubs) <= 1

\* ---------------------------------------------------------------------------
\* Properties of the npub.cash quote subscription
\* ---------------------------------------------------------------------------
quoteOpen == quoteSub # Idle

\* C30: at most one quote subscription is live, and it is the one the
\* module handle refers to; a subscribe that creates a subscription has
\* closed the one that was live before; a subscribe that fails returns the
\* no-op disposer and opens nothing.
C30_AtMostOneQuoteSubscription ==
    /\ [](quoteOpen =>
            /\ Cardinality(liveQuoteSubs) <= 1
            /\ \A k \in liveQuoteSubs : quoteSub.subscriptionDisposer = k)
    /\ [][(quoteOpen /\ Len(quoteSub.subs') > Len(quoteSub.subs))
            => /\ \A k \in 1..Len(quoteSub.subs) : quoteSub.subs'[k] = "closed"
               /\ quoteSub.returned'[Len(quoteSub.returned')].disposer
                    = Len(quoteSub.subs')]_vars
    /\ [][(quoteOpen /\ Len(quoteSub.returned') > Len(quoteSub.returned)
               /\ quoteSub.returned'[Len(quoteSub.returned')].disposer = 0)
            => /\ Len(quoteSub.subs') = Len(quoteSub.subs)
               /\ \A k \in 1..Len(quoteSub.subs) :
                    quoteSub.subs'[k] = "live" => quoteSub.subs[k] = "live"]_vars

C30_Witness ==
    /\ quoteOpen
    /\ quoteSub.subs = <<"closed", "live">>
    /\ quoteSub.subscriptionDisposer = 2
    /\ Len(quoteSub.returned) = 3
    /\ quoteSub.returned[1].disposer = 1
    /\ quoteSub.returned[2].disposer = 2
    /\ quoteSub.returned[3] = [disposer |-> 0, onError |-> TRUE]

\* C31: the module handle is non-null exactly when a quote subscription is
\* live, and the disposer of no subscription has run more than once.
C31_HandleIffLive ==
    quoteOpen =>
        /\ quoteSub.subscriptionDisposer # NoDisposer <=> liveQuoteSubs # {}
        /\ \A k \in 1..Len(quoteSub.invoked) : quoteSub.invoked[k] <= 1

\* ---------------------------------------------------------------------------
\* Funds moved by routePayment, totals of processPayouts
\* ---------------------------------------------------------------------------
fundsMoved ==
    { k \in 1..Len(calls) :
        calls[k].op \in {"breezPay", "melt", "mint"} /\ calls[k].res = "ok" }

\* C32: in one routePayment call at most one of the steps that move funds
\* takes effect: the direct-wallet send succeeding, the melt returning true,
\* the token being minted.
C32_AtMostOneRailPays ==
    /\ Cardinality(fundsMoved) <= 1
    /\ \A k \in fundsMoved :
         /\ \A j \in k + 1..Len(calls) : calls[j].op = "sendGiftWrap"
         /\ calls[k].op \in {"breezPay", "melt"} => k = Len(calls)

C32_Witness ==
    /\ pc = "routeDone"
    /\ calledWith("breezPay", "fail")
    /\ calledWith("melt", "fail")
    /\ calledOk("mint")
    /\ Cardinality(fundsMoved) = 1

\* C33: when the mint function returned a token during a routePayment call,
\* the call ends with success = true and method 'cashu_dm'; a call that
\* returns method 'failed' has minted no token.
C33_MintedTokenDelivered ==
    pc = "routeDone" =>
        /\ calledOk("mint") => (ret.success /\ ret.method = "cashu_dm")
        /\ ret.method = "failed" => ~calledOk("mint")

successEntries == { k \in DOMAIN results : results[k].success }
RECURSIVE paidTo(_)
paidTo(n) ==
    IF n = 0 THEN 0
    ELSE paidTo(n - 1) + (IF results[recipients[n].pubkey].success
                          THEN recipients[n].amountSats ELSE 0)

\* C34: on return of processPayouts successCount + failCount is the number
\* of recipients, successCount and failCount are the numbers of entries of
\* the results map with success true and false, and totalPaid is the sum of
\* amountSats over the recipients whose recorded result has success true.
C34_TotalsMatchResults ==
    pc = "returned" =>
        /\ successCount + failCount = Len(recipients)
        /\ successCount = Cardinality(successEntries)
        /\ failCount = Cardinality(DOMAIN results \ successEntries)
        /\ totalPaid = paidTo(Len(recipients))

\* C35: onMessage is called only on behalf of a subscription whose disposer
\* has not been called.
C35_NoMessageAfterDispose ==
    [][(subscribing /\ Len(giftSub.calls') > Len(giftSub.calls))
        => giftSub.subs[giftSub.calls'[Len(giftSub.calls')].sub] = "live"]_vars

\* C36: the senderPubkey of every onMessage call is the pubkey of the seal
\* whose key decrypted the rumor.
C36_SenderIsSealAuthor ==
    subscribing =>
        \A c \in 1..Len(giftSub.calls) :
            LET call == giftSub.calls[c]
                event == giftSub.received[call.at].event
            IN /\ call.senderPubkey = sealIn(event).pubkey
               /\ call.rumor.pubkey = sealIn(event).pubkey

\* ---------------------------------------------------------------------------
\* Properties of getBtcPrice
\* ---------------------------------------------------------------------------
pricing == priceService # Idle
priceCall(c) == priceService.calls[c]
young(call) == call.seen # NoCache /\ call.at - call.seen.timestamp < 5
fetchSucceeded(call) ==
    call.pc = "returned" /\ call.fetched /\ call.data.ok /\ call.data.usd > 0

\* C37: getBtcPrice never raises; with a cache younger than 5 minutes it
\* returns the cached price without a fetch, otherwise it fetches; a
\* successful fetch replaces the cache and is returned; a failed fetch
\* returns the stale cached price if there is one and null otherwise; the
\* cache is never emptied, so after a successful fetch no call returns null.
C37_CachedFetchedOrStale ==
    /\ [](pricing =>
            \A c \in 1..Len(priceService.calls) :
                /\ priceCall(c).pc \in {"fetching", "returned"}
                /\ young(priceCall(c)) =>
                     /\ priceCall(c).pc = "returned"
                     /\ ~priceCall(c).fetched
                     /\ priceCall(c).value = priceCall(c).seen.usd
                /\ ~young(priceCall(c)) => priceCall(c).fetched
                /\ fetchSucceeded(priceCall(c)) =>
                     /\ priceCall(c).value = priceCall(c).data.usd
                     /\ priceService.cachedPrice # NoCache)
    /\ [][pricing =>
            \A c \in 1..Len(priceService.calls) :
                (priceCall(c).pc = "fetching"
                    /\ priceService.calls'[c].pc = "returned") =>
                  LET done == priceService.calls'[c]
                  IN IF done.data.ok /\ done.data.usd > 0
                     THEN /\ done.value = done.data.usd
                          /\ priceService.cachedPrice' =
                               [usd |-> done.data.usd,
                                timestamp |-> priceService.clock]
                     ELSE /\ priceService.cachedPrice' = priceService.cachedPrice
                          /\ done.value =
                               (IF priceService.cachedPrice # NoCache
                                THEN priceService.cachedPrice.usd ELSE -1)
                          /\ done.value = -1 =>
                               \A d \in 1..Len(priceService.calls) :
                                   ~fetchSucceeded(priceCall(d))]_vars

C37_Witness ==
    /\ pricing
    /\ Len(priceService.calls) = 2
    /\ fetchSucceeded(priceCall(1))
    /\ priceCall(1).value = 2
    /\ priceCall(2).pc = "returned"
    /\ priceCall(2).fetched
    /\ priceCall(2).seen = [usd |-> 2, timestamp |-> 0]
    /\ priceCall(2).at = 5
    /\ ~priceCall(2).data.ok
    /\ priceCall(2).value = 2

\* ---------------------------------------------------------------------------
\* Properties of getVerificationIndices
\* ---------------------------------------------------------------------------
verifying == verification # Idle

\* C38: getVerificationIndices(wordCount, 3) returns for every wordCount of
\* at least 1, and what it returns are exactly 3 pairwise distinct indices
\* in [0, wordCount) in ascending order.
C38_TerminatesSorted ==
    /\ <>(verifying /\ verification.pc = "returned")
    /\ []((verifying /\ verification.pc = "returned") =>
            /\ Len(verification.ret) = 3
            /\ \A k \in 1..Len(verification.ret) :
                 /\ verification.ret[k] >= 0
                 /\ verification.ret[k] < verification.wordCount
            /\ \A k \in 1..Len(verification.ret) - 1 :
                 verification.ret[k] < verification.ret[k + 1])

\* ---------------------------------------------------------------------------
\* Properties of the web QR scanner
\* ---------------------------------------------------------------------------
videoPlaying == scanner # Idle /\ scanner.pc = "done" /\ scanner.stream

\* C39: once the start sequence has the camera stream and the video is
\* playing, no initialization timeout of that sequence fires: none sets the
\* CameraInitTimeout error and none stops the scanner.
C39_NoTimeoutOncePlaying ==
    [][videoPlaying =>
        /\ scanner.timeouts' = scanner.timeouts
        /\ scanner.stream'
        /\ scanner.cameraError' = scanner.cameraError]_vars

====
